---- MODULE Spec2Model ----
(***************************************************************************)
(* A model of the permit pipeline of urbangrowthdgxatx/undervolt: the      *)
(* nearest-centroid incremental assigner, the rule cascades and the record *)
(* normalizers.  Every subsystem has its own specification over the same   *)
(* variables; the variables a specification does not use stay at their     *)
(* idle values.                                                            *)
(*                                                                         *)
(* Conventions.  A nullable value is an option: None is Python's None /    *)
(* SQL NULL, Some(v) a present value; the cells of a DataFrame are tagged  *)
(* values (NaN, NaT, None, str, int, float, datetime).  Strings are the    *)
(* program's strings.  np.float32 arithmetic is modelled by exact rational *)
(* arithmetic on integers (rounding is abstracted away).                   *)
(***************************************************************************)
EXTENDS Integers, Sequences, FiniteSets, TLC

VARIABLES
    pc,           \* position of the operation that is running
    description,  \* the text handed to the function under check
    centroids,    \* dict cluster id -> centroid, in insertion order
    result,       \* the value the function under check returned, None before
    permits,      \* the permits table as the open transaction sees it
    committed,    \* the permits table as of the last conn.commit()
    rows,         \* cluster_unclustered: the fetched unclustered rows
    updates,      \* cluster_unclustered: the (cluster_id, row_id) list
    total,        \* cluster_unclustered: rows updated so far
    again,        \* the cluster ids a repeated assignment returned
    csv,          \* the permits csv file: header and rows of cell texts
    frame,        \* the DataFrame the caller of the normalizer holds
    cleaned,      \* what the normalizer returned (or the exception it raised)
    prepared,     \* the tuples the incremental path prepared for the store
    clusterer,    \* the clusterer: entry point, backend and parameters
    fits,         \* the runs of the clusterer on the table, oldest first
    clusters,     \* the clusters table: id -> count and percentage
    energy_stats_by_zip,  \* the energy_stats_by_zip table, keyed by zip_code
    trends,       \* the trends table, a set of rows
    update_run,   \* incremental_update: runs completed, the store the run began with
    script,       \* the llm_categorize script that runs
    prog,         \* its progress dict in memory: last_id and count
    progress_file,  \* the content of PROGRESS_FILE: None while it does not exist
    committed_upto, \* last_id of the last batch whose updates were committed
    request,      \* the last LLM call: the batch sent, the reply, the ids written
    construction_permits,  \* extract_vllm: the table, permit_number -> description
    batch_files,  \* extract_vllm: the batch_NNNN.csv files in name order
    processed,    \* extract_vllm: the OFFSET of the next batch
    tasks,        \* extract_batch: the extract_one tasks, in creation order
    semaphore,    \* extract_batch: the value of the asyncio.Semaphore
    completed,    \* extract_batch: results of finished tasks not yet awaited
    results,      \* extract_batch: the results list
    max_concurrent, \* extract_batch: the configured maximum of requests in flight
    entry_point,  \* the entry point that runs and its flags
    input_files,  \* the input files that exist: path -> number of records
    step,         \* the position of the entry point in its steps
    records_processed,  \* records of the input read so far
    effects,      \* what the run has done to the store and the output files
    cluster,      \* name_clusters: the cluster: its size and the sum of each keyword column
    cluster_name, \* name_clusters: the name generate_cluster_name returned
    cleaned_again,\* what a second run of the normalizer on the same table object returned
    batch_categories     \* llm_categorize_all: the results not yet written, (id, trade) pairs

assignVars == <<description, centroids, result>>
storeVars == <<permits, committed, rows, updates, total, again>>
cleanVars == <<csv, frame, cleaned, prepared>>
kmeansVars == <<clusterer, fits>>

aggVars == <<clusters, energy_stats_by_zip, trends, update_run>>

llmVars == <<script, prog, progress_file, committed_upto, request>>

extractVars == <<construction_permits, batch_files, processed>>

poolVars == <<tasks, semaphore, completed, results, max_concurrent>>

entryVars == <<entry_point, input_files, step, records_processed, effects>>

namerVars == <<cluster, cluster_name>>

againVars == <<cleaned_again>>

allVars == <<batch_categories>>

vars ==
    <<pc, description, centroids, result, permits, committed, rows, updates,
          total, again, csv, frame, cleaned, prepared,
      clusterer, fits,
      clusters, energy_stats_by_zip, trends, update_run,
      script, prog, progress_file, committed_upto, request,
      construction_permits, batch_files, processed,
      tasks, semaphore, completed, results, max_concurrent,
      entry_point, input_files, step, records_processed, effects,
      cluster, cluster_name,
      cleaned_again,
      batch_categories>>

----------------------------------------------------------------------------
(* Options and strings                                                     *)

None == <<>>
Some(v) == <<v>>

Min(a, b) == IF a < b THEN a ELSE b

UpperChars == "ABCDEFGHIJKLMNOPQRSTUVWXYZ"
LowerChars == "abcdefghijklmnopqrstuvwxyz"
DigitChars == "0123456789"

CharAt(s, i) == SubSeq(s, i, i)

\* c occurs in the string chars
CharIn(c, chars) == \E i \in 1..Len(chars) : CharAt(chars, i) = c

\* the lower-case letter of every upper-case letter
LowerOf ==
    [c \in { CharAt(UpperChars, i) : i \in 1..Len(UpperChars) } |->
        CharAt(LowerChars, CHOOSE i \in 1..Len(UpperChars) : CharAt(UpperChars, i) = c)]

LowerChar(c) == IF c \in DOMAIN LowerOf THEN LowerOf[c] ELSE c

RECURSIVE lower(_)
\* str.lower()
lower(s) == IF s = "" THEN "" ELSE LowerChar(CharAt(s, 1)) \o lower(SubSeq(s, 2, Len(s)))

\* Python's `kw in s` on strings
Contains(s, kw) ==
    \E i \in 1..(Len(s) - Len(kw) + 1) : SubSeq(s, i, i + Len(kw) - 1) = kw

----------------------------------------------------------------------------
(* Keyword features (cluster_new_permits.py)                               *)

NLP_KEYWORDS ==
    << "residential", "commercial", "remodel", "repair", "new", "demolition",
       "foundation", "roof", "window", "permit", "hvac", "electrical",
       "plumbing", "mechanical", "multi-family", "single-family" >>

extract_features(desc) ==
    IF desc = None \/ desc = Some("")
    THEN [i \in 1..Len(NLP_KEYWORDS) |-> 0]
    ELSE [i \in 1..Len(NLP_KEYWORDS) |->
            IF Contains(lower(desc[1]), NLP_KEYWORDS[i]) THEN 1 ELSE 0]

RECURSIVE SumTo(_, _)
\* f[1] + ... + f[n]
SumTo(f, n) == IF n = 0 THEN 0 ELSE f[n] + SumTo(f, n - 1)

\* np.dot(a, b)
Dot(a, b) == SumTo([i \in 1..Len(a) |-> a[i] * b[i]], Len(a))

\* np.linalg.norm(a) squared
NormSq(a) == Dot(a, a)

\* work_description values: NULL, empty, text without a keyword, texts whose
\* features overlap ("roof" is in all three, by case folding and as a substring)
Descriptions ==
    { None, Some(""), Some("Fence"), Some("New roof"), Some("ROOF repair"),
      Some("Reroof") }

\* extract_features on every description of the model, evaluated once
FeatureTable == [d \in Descriptions |-> extract_features(d)]

\* extract_features(desc), looked up
Features(desc) == FeatureTable[desc]

\* features.mean(axis=0) of the features of a list of descriptions: the mean is
\* sum[i] / n, kept as the component sums and the sample count
Mean(descriptions) ==
    LET features == [k \in 1..Len(descriptions) |-> Features(Some(descriptions[k]))]
    IN [sum |-> [i \in 1..Len(NLP_KEYWORDS) |->
                    SumTo([k \in 1..Len(descriptions) |-> features[k][i]], Len(descriptions))],
        n |-> Len(descriptions)]

----------------------------------------------------------------------------
(* assign_nearest_cluster (cluster_new_permits.py)                         *)

\* the cluster a vector without signal goes to, and the loop's first best_cluster
FallbackCluster == 1

\* best_sim = -1.  A similarity s is kept as the fraction num / den = s * |s|,
\* which orders as s does; a 0/0 (NaN) compares False with everything.
InitialBestSim == [num |-> -1, den |-> 1]

\* np.dot(feat, centroid) / (feat_norm * c_norm): with centroid = sum / n the
\* factor 1/n cancels, and squaring keeps the order of non-negative values
CosineSim(feat, centroid) ==
    [num |-> Dot(feat, centroid.sum) * Dot(feat, centroid.sum),
     den |-> NormSq(feat) * NormSq(centroid.sum)]

SimGreaterEq(sim, best_sim) == sim.num * best_sim.den >= best_sim.num * sim.den

\* sim > best_sim
SimGreater(sim, best_sim) == sim.num * best_sim.den > best_sim.num * sim.den

RECURSIVE AssignLoop(_, _, _, _)
\* for cid, centroid in centroids.items(), from the i-th item on; st holds
\* best_cluster, best_sim and the number of similarities computed so far
AssignLoop(feat, cents, i, st) ==
    IF i > Len(cents) THEN st
    ELSE IF NormSq(cents[i].centroid.sum) = 0
         THEN AssignLoop(feat, cents, i + 1, st)
         ELSE LET sim == CosineSim(feat, cents[i].centroid)
              IN IF SimGreater(sim, st.best_sim)
                 THEN AssignLoop(feat, cents, i + 1,
                                 [best_cluster |-> cents[i].cid, best_sim |-> sim,
                                  sims |-> st.sims + 1])
                 ELSE AssignLoop(feat, cents, i + 1, [st EXCEPT !.sims = @ + 1])

AssignStart == [best_cluster |-> FallbackCluster, best_sim |-> InitialBestSim, sims |-> 0]

\* the same function without its feat_norm == 0 guard
AssignRunNoGuard(features, cents) == AssignLoop(features, cents, 1, AssignStart)

\* one call of assign_nearest_cluster: the loop's final state
AssignRun(features, cents) ==
    IF NormSq(features) = 0
    THEN AssignStart
    ELSE AssignLoop(features, cents, 1, AssignStart)

assign_nearest_cluster(features, cents) == AssignRun(features, cents).best_cluster

----------------------------------------------------------------------------
(* Bounds and input sets                                                   *)

\* cluster ids are 0..MaxClusterId
MaxClusterId == 2
\* rows of the permits table
NPermits == 3
\* LIMIT 5000 of the centroid sample, scaled down
SampleLimit == 2
\* BATCH_SIZE = 2000 rows per UPDATE, scaled down
BatchSize == 2
\* `if total % 10000 == 0: conn.commit()`, scaled down
CommitEvery == 4

ClusterIds == 0..MaxClusterId
PermitIds == 1..NPermits

StoreDescriptions == { None, Some("Fence"), Some("New roof"), Some("Reroof") }

\* the description lists a centroid is the mean of
SampleLists == { <<"Fence">>, <<"New roof">>, <<"ROOF repair">>, <<"New roof", "Reroof">> }

IsInjective(f) == \A a, b \in DOMAIN f : f[a] = f[b] => a = b

\* the key orders a dict of cluster ids can have
KeyOrders ==
    { o \in UNION { [1..n -> ClusterIds] : n \in 0..Cardinality(ClusterIds) } :
        IsInjective(o) }

\* every dict cid -> centroid, as the list of its items in iteration order
CentroidMaps ==
    UNION { { [k \in 1..Len(o) |-> [cid |-> o[k], centroid |-> Mean(c[k])]] :
                c \in [1..Len(o) -> SampleLists] } : o \in KeyOrders }

----------------------------------------------------------------------------
(* Specification SpecAssign: assign_nearest_cluster as a function of its    *)
(* arguments, for every feature vector of a description and every map.     *)

IdleStore ==
    /\ permits = <<>> /\ committed = <<>> /\ rows = <<>> /\ updates = <<>>
    /\ total = 0 /\ again = <<>>

IdleKMeans == clusterer = <<>> /\ fits = <<>>

IdleAggregates == clusters = <<>> /\ energy_stats_by_zip = <<>> /\ trends = {} /\ update_run = <<>>

IdleLlm == script = <<>> /\ prog = <<>> /\ progress_file = <<>> /\ committed_upto = 0 /\ request = <<>>

IdleExtract == construction_permits = <<>> /\ batch_files = <<>> /\ processed = 0

IdlePool == tasks = <<>> /\ semaphore = 0 /\ completed = <<>> /\ results = <<>> /\ max_concurrent = 0

IdleEntry == entry_point = <<>> /\ input_files = <<>> /\ step = 0 /\ records_processed = 0 /\ effects = {}

IdleNamer == cluster = <<>> /\ cluster_name = <<>>

IdleAgain == cleaned_again = <<>>

IdleAll == batch_categories = <<>>

IdleClean == csv = <<>> /\ frame = <<>> /\ cleaned = <<>> /\ prepared = <<>>

\* the work descriptions a call is made with
CallDescriptions == Descriptions \ { Some("ROOF repair") }

InitAssign ==
    /\ pc = "call"
    /\ description \in CallDescriptions
    /\ centroids \in CentroidMaps
    /\ result = None
    /\ IdleStore
    /\ IdleClean
    /\ IdleKMeans
    /\ IdleAggregates
    /\ IdleLlm
    /\ IdleExtract
    /\ IdlePool
    /\ IdleEntry
    /\ IdleNamer
    /\ IdleAgain
    /\ IdleAll

\* features = extract_features(description); assign_nearest_cluster(features, centroids)
AssignCall ==
    /\ pc = "call"
    /\ result' = Some(AssignRun(Features(description), centroids))
    /\ pc' = "returned"
    /\ UNCHANGED <<description, centroids>>
    /\ UNCHANGED storeVars
    /\ UNCHANGED cleanVars
    /\ UNCHANGED kmeansVars
    /\ UNCHANGED aggVars
    /\ UNCHANGED llmVars
    /\ UNCHANGED extractVars
    /\ UNCHANGED poolVars
    /\ UNCHANGED entryVars
    /\ UNCHANGED namerVars
    /\ UNCHANGED againVars
    /\ UNCHANGED allVars

NextAssign == AssignCall

SpecAssign == InitAssign /\ [][NextAssign]_vars

----------------------------------------------------------------------------
(* Specification SpecCluster: main() of cluster_new_permits.py on a store. *)

RECURSIVE SetToSeq(_)
\* the elements of a set of row ids, in ascending order
SetToSeq(S) ==
    IF S = {} THEN <<>>
    ELSE LET m == CHOOSE x \in S : \A y \in S : x <= y
         IN <<m>> \o SetToSeq(S \ {m})

\* SELECT work_description ... WHERE cluster_id = cid AND work_description IS NOT NULL
Members(store, cid) ==
    { p \in DOMAIN store :
        store[p].cluster_id = Some(cid) /\ store[p].work_description # None }

\* ... LIMIT 5000: any SampleLimit of the members, all of them when there are fewer
Samples(store, cid) ==
    { S \in SUBSET Members(store, cid) :
        Cardinality(S) = Min(SampleLimit, Cardinality(Members(store, cid))) }

\* centroid = features.mean(axis=0) of the sampled descriptions of one cluster
SampleCentroid(store, S) ==
    Mean([k \in 1..Cardinality(S) |-> store[SetToSeq(S)[k]].work_description[1]])

RECURSIVE CentroidsFrom(_, _)
\* for cid in cluster_ids (ORDER BY cluster_id), from cid on: a cluster without
\* a description is skipped, the others get the mean of a sample; the set of
\* the dicts the samples can give
CentroidsFrom(store, cid) ==
    IF cid > MaxClusterId THEN { <<>> }
    ELSE { head \o tail :
             head \in (IF Members(store, cid) = {} THEN { <<>> }
                       ELSE { << [cid |-> cid, centroid |-> SampleCentroid(store, S)] >> :
                                S \in Samples(store, cid) }),
             tail \in CentroidsFrom(store, cid + 1) }

InitCluster ==
    /\ pc = "compute_centroids"
    /\ permits \in [PermitIds -> [work_description : StoreDescriptions,
                                  cluster_id : {None} \cup {Some(c) : c \in ClusterIds}]]
    /\ committed = permits
    /\ description = None /\ centroids = <<>> /\ result = None
    /\ rows = <<>> /\ updates = <<>> /\ total = 0 /\ again = <<>>
    /\ IdleClean
    /\ IdleKMeans
    /\ IdleAggregates
    /\ IdleLlm
    /\ IdleExtract
    /\ IdlePool
    /\ IdleEntry
    /\ IdleNamer
    /\ IdleAgain
    /\ IdleAll

\* centroids = compute_centroids(conn)
compute_centroids ==
    /\ pc = "compute_centroids"
    /\ centroids' \in CentroidsFrom(permits, 0)
    /\ pc' = "fetch"
    /\ UNCHANGED <<description, result>>
    /\ UNCHANGED storeVars
    /\ UNCHANGED cleanVars
    /\ UNCHANGED kmeansVars
    /\ UNCHANGED aggVars
    /\ UNCHANGED llmVars
    /\ UNCHANGED extractVars
    /\ UNCHANGED poolVars
    /\ UNCHANGED entryVars
    /\ UNCHANGED namerVars
    /\ UNCHANGED againVars
    /\ UNCHANGED allVars

\* SELECT id, permit_number, work_description FROM permits WHERE cluster_id IS NULL
Unclustered(store) ==
    LET ids == SetToSeq({ p \in DOMAIN store : store[p].cluster_id = None })
    IN [k \in 1..Len(ids) |-> [id |-> ids[k], work_description |-> store[ids[k]].work_description]]

\* cluster_unclustered, to `if not rows: return 0`
FetchUnclustered ==
    /\ pc = "fetch"
    /\ rows' = Unclustered(permits)
    /\ pc' = IF rows' = <<>> THEN "done" ELSE "assign"
    /\ UNCHANGED <<permits, committed, updates, total, again>>
    /\ UNCHANGED assignVars
    /\ UNCHANGED cleanVars
    /\ UNCHANGED kmeansVars
    /\ UNCHANGED aggVars
    /\ UNCHANGED llmVars
    /\ UNCHANGED extractVars
    /\ UNCHANGED poolVars
    /\ UNCHANGED entryVars
    /\ UNCHANGED namerVars
    /\ UNCHANGED againVars
    /\ UNCHANGED allVars

\* the loop `for row_id, permit_number, description in rows`
AssignedUpdates(rs, cents) ==
    [k \in 1..Len(rs) |->
        [cluster_id |-> assign_nearest_cluster(Features(rs[k].work_description), cents),
         id |-> rs[k].id]]

AssignRows ==
    /\ pc = "assign"
    /\ updates' = AssignedUpdates(rows, centroids)
    /\ pc' = "update"
    /\ UNCHANGED <<permits, committed, rows, total, again>>
    /\ UNCHANGED assignVars
    /\ UNCHANGED cleanVars
    /\ UNCHANGED kmeansVars
    /\ UNCHANGED aggVars
    /\ UNCHANGED llmVars
    /\ UNCHANGED extractVars
    /\ UNCHANGED poolVars
    /\ UNCHANGED entryVars
    /\ UNCHANGED namerVars
    /\ UNCHANGED againVars
    /\ UNCHANGED allVars

\* an UPDATE that gives every row of the batch the first tuple's cluster_id
ApplyUpdatesNoJoin(store, batch) ==
    [p \in DOMAIN store |->
        IF \E k \in 1..Len(batch) : batch[k].id = p
        THEN [store[p] EXCEPT !.cluster_id = Some(batch[1].cluster_id)]
        ELSE store[p]]

\* UPDATE permits SET cluster_id = data.cluster_id FROM (VALUES batch) AS
\* data(cluster_id, id) WHERE permits.id = data.id
ApplyUpdates(store, batch) ==
    [p \in DOMAIN store |->
        IF \E k \in 1..Len(batch) : batch[k].id = p
        THEN [store[p] EXCEPT !.cluster_id =
                Some(batch[CHOOSE k \in 1..Len(batch) : batch[k].id = p].cluster_id)]
        ELSE store[p]]

\* one pass of `for i in range(0, len(updates), BATCH_SIZE)`
UpdateBatch ==
    /\ pc = "update"
    /\ total < Len(updates)
    /\ LET batch == SubSeq(updates, total + 1, Min(total + BatchSize, Len(updates)))
       IN /\ permits' = ApplyUpdates(permits, batch)
          /\ total' = total + Len(batch)
          /\ committed' = IF total' % CommitEvery = 0 THEN permits' ELSE committed
    /\ UNCHANGED <<pc, rows, updates, again>>
    /\ UNCHANGED assignVars
    /\ UNCHANGED cleanVars
    /\ UNCHANGED kmeansVars
    /\ UNCHANGED aggVars
    /\ UNCHANGED llmVars
    /\ UNCHANGED extractVars
    /\ UNCHANGED poolVars
    /\ UNCHANGED entryVars
    /\ UNCHANGED namerVars
    /\ UNCHANGED againVars
    /\ UNCHANGED allVars

\* the conn.commit() after the loop; cluster_unclustered returns total
FinalCommit ==
    /\ pc = "update"
    /\ total >= Len(updates)
    /\ committed' = permits
    /\ pc' = "done"
    /\ UNCHANGED <<permits, rows, updates, total, again>>
    /\ UNCHANGED assignVars
    /\ UNCHANGED cleanVars
    /\ UNCHANGED kmeansVars
    /\ UNCHANGED aggVars
    /\ UNCHANGED llmVars
    /\ UNCHANGED extractVars
    /\ UNCHANGED poolVars
    /\ UNCHANGED entryVars
    /\ UNCHANGED namerVars
    /\ UNCHANGED againVars
    /\ UNCHANGED allVars

\* the assignment loop once more, over the same rows and the same centroids
AssignAgain ==
    /\ pc = "done"
    /\ rows # <<>>
    /\ again' = AssignedUpdates(rows, centroids)
    /\ pc' = "checked"
    /\ UNCHANGED <<permits, committed, rows, updates, total>>
    /\ UNCHANGED assignVars
    /\ UNCHANGED cleanVars
    /\ UNCHANGED kmeansVars
    /\ UNCHANGED aggVars
    /\ UNCHANGED llmVars
    /\ UNCHANGED extractVars
    /\ UNCHANGED poolVars
    /\ UNCHANGED entryVars
    /\ UNCHANGED namerVars
    /\ UNCHANGED againVars
    /\ UNCHANGED allVars

NextCluster ==
    \/ compute_centroids
    \/ FetchUnclustered
    \/ AssignRows
    \/ UpdateBatch
    \/ FinalCommit
    \/ AssignAgain

SpecCluster == InitCluster /\ [][NextCluster]_vars

----------------------------------------------------------------------------
(* Rule cascades (rule_categorize.py, fast_categorize.py)                  *)
(*                                                                         *)
(* A regular expression is kept as the list of its alternatives, groups    *)
(* multiplied out; an alternative is a list of atoms: a literal string, or *)
(* one of \b ^ $ .* .? \s* \s+ \d, or "c?" for an optional character c.    *)

\* \w
IsWordChar(c) ==
    CharIn(c, LowerChars) \/ CharIn(c, UpperChars) \/ CharIn(c, DigitChars) \/ c = "_"

\* the character at pos exists and is a word character
WordAt(text, pos) == pos >= 1 /\ pos <= Len(text) /\ IsWordChar(CharAt(text, pos))

RECURSIVE MatchFrom(_, _, _, _)
\* the atoms from the k-th on match text from position pos on (\s is a blank:
\* the texts of the model hold no other whitespace)
MatchFrom(atoms, k, text, pos) ==
    IF k > Len(atoms) THEN TRUE
    ELSE LET a == atoms[k]
             rest(p) == MatchFrom(atoms, k + 1, text, p)
         IN CASE a = "\\b" -> WordAt(text, pos - 1) # WordAt(text, pos) /\ rest(pos)
              [] a = "^" -> pos = 1 /\ rest(pos)
              [] a = "$" -> pos = Len(text) + 1 /\ rest(pos)
              [] a = ".*" -> \E p \in pos..(Len(text) + 1) : rest(p)
              [] a = ".?" -> rest(pos) \/ (pos <= Len(text) /\ rest(pos + 1))
              [] a = "\\s*" ->
                    \E p \in pos..(Len(text) + 1) :
                        (\A q \in pos..(p - 1) : CharAt(text, q) = " ") /\ rest(p)
              [] a = "\\s+" ->
                    \E p \in (pos + 1)..(Len(text) + 1) :
                        (\A q \in pos..(p - 1) : CharAt(text, q) = " ") /\ rest(p)
              [] a = "\\d" ->
                    pos <= Len(text) /\ CharIn(CharAt(text, pos), DigitChars) /\ rest(pos + 1)
              [] Len(a) = 2 /\ CharAt(a, 2) = "?" /\ a # ".?" ->
                    rest(pos) \/ (pos <= Len(text) /\ CharAt(text, pos) = CharAt(a, 1)
                                  /\ rest(pos + 1))
              [] OTHER ->
                    /\ pos + Len(a) - 1 <= Len(text)
                    /\ SubSeq(text, pos, pos + Len(a) - 1) = a
                    /\ rest(pos + Len(a))

\* pattern.search(text) with re.IGNORECASE (the patterns are lower case)
Search(pattern, text) ==
    LET t == lower(text)
    IN \E i \in 1..Len(pattern) : \E pos \in 1..(Len(t) + 1) :
          MatchFrom(pattern[i], 1, t, pos)

\* TRADE_RULES of rule_categorize.py: (pattern, trade), first match wins
TRADE_RULES ==
    <<
      [label |-> "demolition", pattern |-> <<
         <<"\\b", "demo", "\\b">>, <<"\\b", "demolition", "\\b">>,
         <<"\\b", "demolish", "\\b">>,
         <<"\\b", "tear", "\\s*", "down", "\\b">>, <<"\\b", "raze", "\\b">> >>],
      [label |-> "electrical", pattern |-> <<
         <<"\\b", "electric", "\\b">>, <<"\\b", "electrical", "\\b">>,
         <<"\\b", "wire", "\\b">>, <<"\\b", "wiring", "\\b">>,
         <<"\\b", "outlet", "\\b">>, <<"\\b", "panel", "\\b">>,
         <<"\\b", "circuit", "\\b">>, <<"\\b", "breaker", "\\b">>,
         <<"\\b", "meter", "\\b">>, <<"\\b", "transformer", "\\b">>,
         <<"\\b", "generator", "\\b">>, <<"\\b", "solar", "\\b">>,
         <<"\\b", "pv", "\\b">>, <<"\\b", "photovoltaic", "\\b">>,
         <<"\\b", "ev", "\\s*", "charg", "\\b">>,
         <<"\\b", "tesla", "\\s*", "wall", "\\b">>,
         <<"\\b", "powerwall", "\\b">>,
         <<"\\b", "battery", "\\s*", "storage", "\\b">> >>],
      [label |-> "plumbing", pattern |-> <<
         <<"\\b", "plumb", "\\b">>, <<"\\b", "plumbing", "\\b">>,
         <<"\\b", "pipe", "\\b">>, <<"\\b", "piping", "\\b">>,
         <<"\\b", "water", "\\s*", "heater", "\\b">>,
         <<"\\b", "drain", "\\b">>, <<"\\b", "sewer", "\\b">>,
         <<"\\b", "septic", "\\b">>, <<"\\b", "toilet", "\\b">>,
         <<"\\b", "sink", "\\b">>, <<"\\b", "faucet", "\\b">>,
         <<"\\b", "backflow", "\\b">>, <<"\\b", "irrigation", "\\b">>,
         <<"\\b", "sprinkler", "\\b">>,
         <<"\\b", "well", "\\s*", "pump", "\\b">> >>],
      [label |-> "hvac", pattern |-> <<
         <<"\\b", "hvac", "\\b">>, <<"\\b", "a", "/?", "c", "\\b">>,
         <<"\\b", "air", "\\s*", "condition", "\\b">>,
         <<"\\b", "heat", "\\s*", "pump", "\\b">>, <<"\\b", "furnace", "\\b">>,
         <<"\\b", "duct", "\\b">>, <<"\\b", "ductwork", "\\b">>,
         <<"\\b", "mini", "\\s*", "split", "\\b">>,
         <<"\\b", "condenser", "\\b">>, <<"\\b", "compressor", "\\b">>,
         <<"\\b", "ventilat", "\\b">>,
         <<"\\b", "exhaust", "\\s*", "fan", "\\b">> >>],
      [label |-> "roofing", pattern |-> <<
         <<"\\b", "roof", "\\b">>, <<"\\b", "roofing", "\\b">>,
         <<"\\b", "shingle", "\\b">>, <<"\\b", "re", "-?", "roof", "\\b">>,
         <<"\\b", "reroof", "\\b">> >>],
      [label |-> "gas", pattern |-> <<
         <<"\\b", "gas", "\\s*", "line", "\\b">>,
         <<"\\b", "gas", "\\s*", "pipe", "\\b">>,
         <<"\\b", "natural", "\\s*", "gas", "\\b">>,
         <<"\\b", "propane", "\\b">>, <<"\\b", "gas", "\\s*", "meter", "\\b">>,
         <<"\\b", "gas", "\\s*", "service", "\\b">> >>],
      [label |-> "foundation", pattern |-> <<
         <<"\\b", "foundation", "\\b">>, <<"\\b", "slab", "\\b">>,
         <<"\\b", "pier", "\\b">>, <<"\\b", "footing", "\\b">>,
         <<"\\b", "concrete", "\\s*", "pour", "\\b">>,
         <<"\\b", "grade", "\\s*", "beam", "\\b">>,
         <<"\\b", "post", "\\s*", "tension", "\\b">> >>],
      [label |-> "structural", pattern |-> <<
         <<"\\b", "structur", "\\b">>, <<"\\b", "beam", "\\b">>,
         <<"\\b", "column", "\\b">>,
         <<"\\b", "load", "\\s*", "bearing", "\\b">>,
         <<"\\b", "framing", "\\b">>, <<"\\b", "steel", "\\b">>,
         <<"\\b", "joist", "\\b">>, <<"\\b", "truss", "\\b">>,
         <<"\\b", "retaining", "\\s*", "wall", "\\b">> >>],
      [label |-> "irrigation", pattern |-> <<
         <<"\\b", "irrigat", "\\b">>,
         <<"\\b", "sprinkler", "\\s*", "system", "\\b">>,
         <<"\\b", "drip", "\\s*", "system", "\\b">>,
         <<"\\b", "landscape", "\\s*", "water", "\\b">> >>],
      [label |-> "fire_safety", pattern |-> <<
         <<"\\b", "fire", "\\s*", "alarm", "\\b">>,
         <<"\\b", "fire", "\\s*", "sprinkler", "\\b">>,
         <<"\\b", "fire", "\\s*", "suppression", "\\b">>,
         <<"\\b", "smoke", "\\s*", "detector", "\\b">>,
         <<"\\b", "fire", "\\s*", "extinguish", "\\b">> >>],
      [label |-> "pool", pattern |-> <<
         <<"\\b", "pool", "\\b">>, <<"\\b", "spa", "\\b">>,
         <<"\\b", "hot", "\\s*", "tub", "\\b">>, <<"\\b", "swimming", "\\b">> >>],
      [label |-> "fence", pattern |-> <<
         <<"\\b", "fence", "\\b">>, <<"\\b", "fencing", "\\b">>,
         <<"\\b", "gate", "\\b">> >>],
      [label |-> "flatwork", pattern |-> <<
         <<"\\b", "driveway", "\\b">>, <<"\\b", "sidewalk", "\\b">>,
         <<"\\b", "flatwork", "\\b">>, <<"\\b", "patio", "\\b">>,
         <<"\\b", "concrete", "\\s*", "pad", "\\b">> >>],
      [label |-> "signage", pattern |-> <<
         <<"\\b", "sign", "\\b">>, <<"\\b", "signage", "\\b">>,
         <<"\\b", "banner", "\\b">>,
         <<"\\b", "monument", "\\s*", "sign", "\\b">> >>],
      [label |-> "general", pattern |-> <<
         <<"\\b", "remodel", "\\b">>, <<"\\b", "renovation", "\\b">>,
         <<"\\b", "addition", "\\b">>,
         <<"\\b", "new", "\\s*", "construct", "\\b">>,
         <<"\\b", "build", "\\s*", "out", "\\b">>,
         <<"\\b", "tenant", "\\s*", "improve", "\\b">>,
         <<"\\b", "finish", "\\s*", "out", "\\b">>,
         <<"\\b", "interior", "\\s*", "alter", "\\b">> >>]
    >>

\* PROJECT_PATTERNS of fast_categorize.py, in dict order
PROJECT_PATTERNS ==
    <<
      [label |-> "demolition", pattern |-> <<
         <<"\\b", "demoli">>, <<"tear", ".?", "down">>, <<"raze">>,
         <<"remove", ".*", "structure", "\\b">> >>],
      [label |-> "new_construction", pattern |-> <<
         <<"\\b", "new", "\\b", ".*", "\\b", "construct", "\\b">>,
         <<"\\b", "new", "\\b", ".*", "\\b", "build", "\\b">>,
         <<"\\b", "new", "\\b", ".*", "\\b", "home", "\\b">>,
         <<"\\b", "new", "\\b", ".*", "\\b", "house", "\\b">>,
         <<"\\b", "new", "\\b", ".*", "\\b", "residential", "\\b">>,
         <<"\\b", "new", "\\b", ".*", "\\b", "commercial", "\\b">>,
         <<"\\b", "new", "\\b", ".*", "\\b", "sfr", "\\b">>,
         <<"\\b", "new", "\\b", ".*", "\\b", "single", ".?", "family", "\\b">>,
         <<"\\b", "new", "\\b", ".*", "\\b", "pool", "\\b">>,
         <<"\\b", "new", "\\b", ".*", "\\b", "deck", "\\b">>,
         <<"\\b", "new", "\\b", ".*", "\\b", "garage", "\\b">>,
         <<"\\b", "new", "\\b", ".*", "\\b", "story", "\\b">>,
         <<"\\b", "new", "\\b", ".*", "\\b", "bedroom", "\\b">>,
         <<"\\b", "new", "\\b", ".*", "\\b", "bath", "\\b">>,
         <<"\\b", "new", "\\b", ".*", "\\b", "carport", "\\b">>,
         <<"\\b", "new", "\\b", ".*", "\\b", "dwelling", "\\b">>,
         <<"\\b", "new", "\\b", ".*", "\\b", "residence", "\\b">>,
         <<"\\b", "new", "\\b", ".*", "\\b", "fence", "\\b">>,
         <<"\\b", "new", "\\b", ".*", "\\b", "patio", "\\b">>,
         <<"\\b", "new", "\\b", ".*", "\\b", "shed", "\\b">>,
         <<"\\b", "new", "\\b", ".*", "\\b", "barn", "\\b">>,
         <<"\\b", "new", "\\b", ".*", "\\b", "apartment", "\\b">>,
         <<"\\b", "new", "\\b", ".*", "\\b", "duplex", "\\b">>,
         <<"\\b", "new", "\\b", ".*", "\\b", "multi", ".?", "family", "\\b">>,
         <<"\\b", "new", "\\b", ".*", "\\b", "shell", "\\b">>,
         <<"\\b", "new", "\\b", ".*", "\\b", "irrigation", "\\b">>,
         <<"\\b", "new", "\\b", ".*", "\\b", "condominium", "\\b">>,
         <<"\\b", "new", "\\b", ".*", "\\b", "portable", "\\b">>,
         <<"\\b", "new", "\\b", ".*", "\\b", "classroom", "\\b">>,
         <<"\\b", "new", "\\b", ".*", "\\b", "trailer", "\\b">>,
         <<"\\b", "new", "\\s+", "sfr">>, <<"\\b", "new", "\\s+", "res">>,
         <<"\\b", "new", "\\s+", "comm">>, <<"\\b", "new", "\\s+", "pool">>,
         <<"\\b", "new", "\\s+", "in", ".?", "ground">>,
         <<"\\b", "new", "\\s+", "exterior">>,
         <<"\\b", "new", "\\s+", "interior">>,
         <<"\\b", "new", "\\s+", "sign">>,
         <<"\\b", "new", "\\s+", "apartment">>,
         <<"\\b", "new", "\\s+", "duplex">>,
         <<"^", "\\s*", "one", "\\s*", "stry", ".*", "res">>,
         <<"^", "\\s*", "one", "\\s*", "stry", ".*", "dup">>,
         <<"^", "\\s*", "one", "\\s*", "stry", ".*", "pud">>,
         <<"^", "\\s*", "one", "\\s*", "story", ".*", "res">>,
         <<"^", "\\s*", "one", "\\s*", "story", ".*", "dup">>,
         <<"^", "\\s*", "one", "\\s*", "story", ".*", "pud">>,
         <<"^", "\\s*", "two", "\\s*", "stry", ".*", "res">>,
         <<"^", "\\s*", "two", "\\s*", "stry", ".*", "dup">>,
         <<"^", "\\s*", "two", "\\s*", "stry", ".*", "pud">>,
         <<"^", "\\s*", "two", "\\s*", "story", ".*", "res">>,
         <<"^", "\\s*", "two", "\\s*", "story", ".*", "dup">>,
         <<"^", "\\s*", "two", "\\s*", "story", ".*", "pud">>,
         <<"^", "\\s*", "1", "\\s*", "stry", ".*", "res">>,
         <<"^", "\\s*", "1", "\\s*", "stry", ".*", "dup">>,
         <<"^", "\\s*", "1", "\\s*", "stry", ".*", "pud">>,
         <<"^", "\\s*", "1", "\\s*", "story", ".*", "res">>,
         <<"^", "\\s*", "1", "\\s*", "story", ".*", "dup">>,
         <<"^", "\\s*", "1", "\\s*", "story", ".*", "pud">>,
         <<"^", "\\s*", "2", "\\s*", "stry", ".*", "res">>,
         <<"^", "\\s*", "2", "\\s*", "stry", ".*", "dup">>,
         <<"^", "\\s*", "2", "\\s*", "stry", ".*", "pud">>,
         <<"^", "\\s*", "2", "\\s*", "story", ".*", "res">>,
         <<"^", "\\s*", "2", "\\s*", "story", ".*", "dup">>,
         <<"^", "\\s*", "2", "\\s*", "story", ".*", "pud">>,
         <<"sf", "\\s+", "residence">>, <<"sf", "\\s+", "res">>,
         <<"frm", "\\s+", "res">>, <<"frm", "\\s+", "dup">>,
         <<"^", "\\s*", "\\d", "\\s+", "stry", "\\s+", "frm", "\\s+", "res">>,
         <<"^", "\\s*", "\\d", "\\s+", "stry", "\\s+", "frm", "\\s+", "dup">>,
         <<"^", "\\s*", "\\d", "\\s+", "stry", "\\s+", "frm", "\\s+", "pud">>,
         <<"\\b", "one", "\\s+", "story", "\\s+", "residence">>,
         <<"\\b", "two", "\\s+", "story", "\\s+", "residence">>,
         <<"\\b", "1", "\\s+", "story", "\\s+", "residence">>,
         <<"\\b", "2", "\\s+", "story", "\\s+", "residence">>,
         <<"connect", "\\s+", "mobile", "\\b">>,
         <<"connect", "\\s+", "mh", "\\b">>,
         <<"connect", "\\s+", "m/h", "\\b">>,
         <<"connect", "\\s+", "sign", "\\b">>,
         <<"connect", "\\s+", "equipment", "\\b">>,
         <<"^", "mobile", "\\s*", "home", "$">>,
         <<"^", "\\s*", "res", "\\s*", "$">>, <<"^", "residence", "$">>,
         <<"^", "duplex", "$">>, <<"^", "triplex", "$">>,
         <<"^", "four", "\\s*", "plex", "$">>, <<"^", "townhouse", "$">>,
         <<"swimming", "\\s*", "pool">>, <<"^", "pool", "$">>,
         <<"move", "\\s+", "mobile">>, <<"move", "\\s+", "house">>,
         <<"relocate", ".*", "house">>, <<"relocate", ".*", "portable">>,
         <<"relocate", ".*", "classroom">>,
         <<"addn", "\\s+", "to", "\\s+", "res">>,
         <<"detached", "\\s+", "garage">>, <<"^", "apartments", "$">>,
         <<"loop", "\\s+", "for", "\\s+", "mh">>,
         <<"loop", "\\s+", "for", "\\s+", "mobile">>,
         <<"loop", "\\s+", "for", "\\s+", "sign">>,
         <<"temporary", "\\s+", "trailer">>,
         <<"temporary", "\\s+", "construction", "\\s+", "trailer">> >>],
      [label |-> "renovation", pattern |-> <<
         <<"\\b", "renovate">>, <<"remodel">>, <<"alteration">>,
         <<"addition">>, <<"upgrade">>, <<"moderniz">>, <<"improve">>,
         <<"convert">>, <<"finish", ".?", "out">>, <<"suite">>, <<"tenant">>,
         <<"add", "\\s+", "ac">>, <<"add", "\\s+", "a/c">>,
         <<"upgradin", "g?", "\\s+", ".*", "elec">>,
         <<"rem", "\\s+", "exist", ".*", "lease", "\\b">> >>],
      [label |-> "repair", pattern |-> <<
         <<"\\b", "repair">>, <<"fix">>, <<"replace">>, <<"replac">>,
         <<"repalc">>, <<"restore">>, <<"patch">>, <<"mend">>,
         <<"cap", "\\s+", "off">>, <<"top", "\\s+", "out">>,
         <<"change", ".?", "out">>, <<"re", ".?", "roof">>, <<"reroof">>,
         <<"cut", "\\s+", "over", "\\b">> >>],
      [label |-> "installation", pattern |-> <<
         <<"\\b", "install">>, <<"setup">>, <<"mount">>,
         <<"put", "\\s+", "in">>, <<"meter", "\\s+", "loop">>,
         <<"temporary", "\\s+", "pole">>, <<"temporary", "\\s+", "meter">>,
         <<"temporary", "\\s+", "power">>, <<"irrigation">>,
         <<"h", ".?", "t", "\\s+", "loop">>,
         <<"h", "\\s+", "&", "\\s+", "t", "\\s+", "loop">>,
         <<"h", "\\s+", "and", "\\s+", "t", "\\s+", "loop">>,
         <<"loop", "\\s+", "for", "\\s+", "cable">>,
         <<"pull", "\\s+", "meter">>,
         <<"pull", "\\s+", "gas", "\\s+", "meter">>,
         <<"pulled", "\\s+", "meter">>,
         <<"pulled", "\\s+", "gas", "\\s+", "meter">>,
         <<"gas", "\\s+", "test">>, <<"elevator">>,
         <<"stove", "\\s+", "hood">>, <<"^", "h-t", "$">>,
         <<"^", "plg", "\\s+", "only", "$">>, <<"^", "comm", "$", "\\b">> >>],
      [label |-> "maintenance", pattern |-> <<
         <<"\\b", "maintenance">>, <<"upkeep">>, <<"service">>, <<"inspect">>,
         <<"violation", "\\b">> >>]
    >>

RECURSIVE LastMatch(_, _, _)
\* a cascade in which a later matching rule overrides an earlier one
LastMatch(rules, text, i) ==
    IF i > Len(rules) THEN None
    ELSE LET later == LastMatch(rules, text, i + 1)
         IN IF later # None THEN later
            ELSE IF Search(rules[i].pattern, text) THEN Some(rules[i].label) ELSE None

RECURSIVE FirstMatch(_, _, _)
\* `for pattern, label in rules: if pattern.search(text): return label`, from
\* the i-th rule on; None when the loop ends without a match
FirstMatch(rules, text, i) ==
    IF i > Len(rules) THEN None
    ELSE IF Search(rules[i].pattern, text) THEN Some(rules[i].label)
         ELSE FirstMatch(rules, text, i + 1)

\* a categorize whose fall-through returns the catch-all rule's label
categorize_catch_all(desc) ==
    IF desc = None \/ desc = Some("") THEN None
    ELSE LET hit == FirstMatch(TRADE_RULES, desc[1], 1)
         IN IF hit # None THEN hit ELSE Some("general")

\* rule_categorize.categorize(description)
categorize(desc) ==
    IF desc = None \/ desc = Some("") THEN None
    ELSE LET hit == FirstMatch(TRADE_RULES, desc[1], 1)
         IN IF hit # None THEN hit ELSE Some("other")

\* fast_categorize.categorize_description(desc).get('project_type')
project_type(desc) ==
    IF desc = None \/ desc = Some("") THEN None
    ELSE FirstMatch(PROJECT_PATTERNS, lower(desc[1]), 1)

\* words per text
MaxWords == 2

RuleWords == { "Demo", "demolition", "remove", "structure", "wiring", "remodel" }

RECURSIVE TextsOf(_)
\* the texts of at most n words, separated by one blank
TextsOf(n) ==
    IF n = 0 THEN { "" }
    ELSE LET shorter == TextsOf(n - 1)
         IN shorter \cup { IF t = "" THEN w ELSE t \o " " \o w : t \in shorter, w \in RuleWords }

RuleTexts == { None } \cup { Some(t) : t \in TextsOf(MaxWords) }

----------------------------------------------------------------------------
(* Specification SpecRules: the two rule classifiers on a description.     *)

InitRules ==
    /\ pc = "rules"
    /\ description \in RuleTexts
    /\ result = None
    /\ centroids = <<>>
    /\ IdleStore
    /\ IdleClean
    /\ IdleKMeans
    /\ IdleAggregates
    /\ IdleLlm
    /\ IdleExtract
    /\ IdlePool
    /\ IdleEntry
    /\ IdleNamer
    /\ IdleAgain
    /\ IdleAll

\* trade = categorize(desc)
Categorize ==
    /\ pc = "rules"
    /\ result' = categorize(description)
    /\ pc' = "categorized"
    /\ UNCHANGED <<description, centroids>>
    /\ UNCHANGED storeVars
    /\ UNCHANGED cleanVars
    /\ UNCHANGED kmeansVars
    /\ UNCHANGED aggVars
    /\ UNCHANGED llmVars
    /\ UNCHANGED extractVars
    /\ UNCHANGED poolVars
    /\ UNCHANGED entryVars
    /\ UNCHANGED namerVars
    /\ UNCHANGED againVars
    /\ UNCHANGED allVars

\* cats = categorize_description(desc); cats.get('project_type')
CategorizeDescription ==
    /\ pc = "rules"
    /\ result' = project_type(description)
    /\ pc' = "fast_categorized"
    /\ UNCHANGED <<description, centroids>>
    /\ UNCHANGED storeVars
    /\ UNCHANGED cleanVars
    /\ UNCHANGED kmeansVars
    /\ UNCHANGED aggVars
    /\ UNCHANGED llmVars
    /\ UNCHANGED extractVars
    /\ UNCHANGED poolVars
    /\ UNCHANGED entryVars
    /\ UNCHANGED namerVars
    /\ UNCHANGED againVars
    /\ UNCHANGED allVars

NextRules == Categorize \/ CategorizeDescription

SpecRules == InitRules /\ [][NextRules]_vars

----------------------------------------------------------------------------
(* Tables: the csv file and the pandas DataFrame                           *)
(*                                                                         *)
(* A csv file is [columns, rows]: the header names and, per row, the cell  *)
(* texts in header order.  A DataFrame is [columns, index, rows]: the      *)
(* column names, the row labels and, per row, the cells in column order.   *)
(* A float is kept as a whole number of tenths (the texts of the model     *)
(* carry at most one decimal).                                             *)

\* DataFrame cells
NaN == <<"nan">>
NaT == <<"NaT">>
PyNone == <<"None">>
Str(t) == <<"str", t>>
Int64(n) == <<"int", n>>
Float64(x) == <<"float", x>>
Timestamp(t) == <<"datetime", t>>

\* the sequence f as an explicit tuple
Tuple(f) == f \o <<>>

\* pandas isna()
isna(cell) == cell \in {NaN, NaT, PyNone}

\* the value of every digit character
DigitVal ==
    [c \in { CharAt(DigitChars, i) : i \in 1..Len(DigitChars) } |->
        (CHOOSE i \in 1..Len(DigitChars) : CharAt(DigitChars, i) = c) - 1]

IsDigits(s) == s # "" /\ \A i \in 1..Len(s) : CharAt(s, i) \in DOMAIN DigitVal

RECURSIVE NatOf(_)
\* the number a string of digits denotes
NatOf(s) ==
    IF s = "" THEN 0
    ELSE 10 * NatOf(SubSeq(s, 1, Len(s) - 1)) + DigitVal[CharAt(s, Len(s))]

Negative(s) == s # "" /\ CharAt(s, 1) = "-"
Unsigned(s) == IF Negative(s) THEN SubSeq(s, 2, Len(s)) ELSE s
DotsOf(s) == { i \in 1..Len(s) : CharAt(s, i) = "." }

\* the text is an integer literal
IsIntText(s) == IsDigits(Unsigned(s))

\* float(s) succeeds: [-]digits[.digits]
IsFloatText(s) ==
    LET u == Unsigned(s)
        dots == DotsOf(u)
    IN \/ IsDigits(u)
       \/ /\ Cardinality(dots) = 1
          /\ LET i == CHOOSE d \in dots : TRUE
             IN IsDigits(SubSeq(u, 1, i - 1)) /\ IsDigits(SubSeq(u, i + 1, Len(u)))

\* float(s), in tenths
FloatOf(s) ==
    LET u == Unsigned(s)
        dots == DotsOf(u)
        magnitude ==
            IF dots = {} THEN 10 * NatOf(u)
            ELSE LET i == CHOOSE d \in dots : TRUE
                 IN 10 * NatOf(SubSeq(u, 1, i - 1)) + DigitVal[CharAt(u, i + 1)]
    IN IF Negative(s) THEN 0 - magnitude ELSE magnitude

\* str(x) of a float kept in tenths
FloatStr(x) ==
    LET magnitude == IF x < 0 THEN 0 - x ELSE x
    IN (IF x < 0 THEN "-" ELSE "") \o ToString(magnitude \div 10) \o "."
          \o ToString(magnitude % 10)

\* Series.astype("str"), per cell
astype_str(cell) ==
    IF cell \in {NaN, NaT, PyNone} THEN cell[1]
    ELSE IF cell[1] = "int" THEN ToString(cell[2])
    ELSE IF cell[1] = "float" THEN FloatStr(cell[2])
    ELSE cell[2]

RECURSIVE replace(_, _, _)
\* str.replace(old, new), old not empty
replace(s, old, new) ==
    IF Len(s) < Len(old) THEN s
    ELSE IF SubSeq(s, 1, Len(old)) = old
         THEN new \o replace(SubSeq(s, Len(old) + 1, Len(s)), old, new)
         ELSE CharAt(s, 1) \o replace(SubSeq(s, 2, Len(s)), old, new)

RECURSIVE strip(_)
\* str.strip() (blanks are the only whitespace of the texts of the model)
strip(s) ==
    IF s = "" THEN ""
    ELSE IF CharAt(s, 1) = " " THEN strip(SubSeq(s, 2, Len(s)))
    ELSE IF CharAt(s, Len(s)) = " " THEN strip(SubSeq(s, 1, Len(s) - 1))
    ELSE s

\* s.split(sep)[0], sep one character
split_first(s, sep) ==
    LET hits == { i \in 1..Len(s) : CharAt(s, i) = sep }
    IN IF hits = {} THEN s
       ELSE SubSeq(s, 1, (CHOOSE i \in hits : \A j \in hits : i <= j) - 1)

\* the cell texts read_csv takes for missing (of pandas' default na_values,
\* those the texts of the model contain)
NA_VALUES == { "", "nan" }

\* the dtype read_csv infers for a column from its cell texts
InferDtype(texts) ==
    LET present == texts \ NA_VALUES
    IN IF \A s \in present : IsIntText(s)
       THEN (IF present = texts THEN "int64" ELSE "float64")
       ELSE IF \A s \in present : IsFloatText(s) THEN "float64" ELSE "object"

ReadCell(dtype, s) ==
    IF s \in NA_VALUES THEN NaN
    ELSE IF dtype = "int64" THEN Int64(FloatOf(s) \div 10)
    ELSE IF dtype = "float64" THEN Float64(FloatOf(s))
    ELSE Str(s)

\* pd.read_csv(path, low_memory=False)
read_csv(file) ==
    LET n == Len(file.rows)
        dtypes == Tuple([j \in 1..Len(file.columns) |->
                           InferDtype({ file.rows[k][j] : k \in 1..n })])
    IN [columns |-> file.columns,
        index |-> Tuple([k \in 1..n |-> k - 1]),
        rows |-> Tuple([k \in 1..n |->
                    Tuple([j \in 1..Len(file.columns) |->
                             ReadCell(dtypes[j], file.rows[k][j])])])]

\* `name in df` / `name in df.columns`
HasColumn(df, name) == \E j \in 1..Len(df.columns) : df.columns[j] = name

ColumnOf(df, name) == CHOOSE j \in 1..Len(df.columns) : df.columns[j] = name

\* row[name] of a DataFrame row
Cell(df, row, name) == row[ColumnOf(df, name)]

\* df[name] = values, values one cell per row
SetColumn(df, name, values) ==
    IF HasColumn(df, name)
    THEN [df EXCEPT !.rows = Tuple([k \in 1..Len(df.rows) |->
                                [df.rows[k] EXCEPT ![ColumnOf(df, name)] = values[k]]])]
    ELSE [df EXCEPT !.columns = Append(df.columns, name),
                    !.rows = Tuple([k \in 1..Len(df.rows) |->
                                      Append(df.rows[k], values[k])])]

\* df[mask], mask the set of row positions to keep
Take(df, mask) ==
    LET ks == SetToSeq(mask)
    IN [df EXCEPT !.index = Tuple([i \in 1..Len(ks) |-> df.index[ks[i]]]),
                  !.rows = Tuple([i \in 1..Len(ks) |-> df.rows[ks[i]]])]

\* df.reset_index(drop=True)
reset_index(df) == [df EXCEPT !.index = Tuple([k \in 1..Len(df.rows) |-> k - 1])]

----------------------------------------------------------------------------
(* The record normalizers (cleaner.py, data_unified.py)                    *)

DATE_COLUMNS ==
    << "applied_date", "issued_date", "status_date", "expires_date", "completed_date" >>

ZIP_SOURCES == << "original_zip", "contractor_zip", "applicant_zip" >>

\* the text is a calendar date YYYY-MM-DD
IsDateText(t) ==
    /\ Len(t) = 10
    /\ CharAt(t, 5) = "-" /\ CharAt(t, 8) = "-"
    /\ IsDigits(SubSeq(t, 1, 4)) /\ IsDigits(SubSeq(t, 6, 7)) /\ IsDigits(SubSeq(t, 9, 10))
    /\ NatOf(SubSeq(t, 6, 7)) \in 1..12
    /\ NatOf(SubSeq(t, 9, 10)) \in 1..31

\* pd.to_datetime(col, errors="coerce"), per cell: a text that is no date and
\* a missing value become NaT, a number is taken as nanoseconds since the epoch
to_datetime(cell) ==
    IF isna(cell) THEN NaT
    ELSE IF cell[1] = "datetime" THEN cell
    ELSE IF cell[1] \in {"int", "float"} THEN Timestamp("1970-01-01")
    ELSE IF IsDateText(cell[2]) THEN Timestamp(cell[2])
    ELSE NaT

\* for col in DATE_COLUMNS: if col in df: df[col] = parse_dates_cpu(df[col])
parse_dates_cpu(df) ==
    [df EXCEPT !.rows = Tuple([k \in 1..Len(df.rows) |->
        Tuple([j \in 1..Len(df.columns) |->
            IF \E i \in 1..Len(DATE_COLUMNS) : DATE_COLUMNS[i] = df.columns[j]
            THEN to_datetime(df.rows[k][j])
            ELSE df.rows[k][j]])])]

\* Series.str.extract(r"(\d{5})", expand=False), per text: the first run of
\* five digits, NaN when there is none
str_extract(s) ==
    LET hits == { i \in 1..(Len(s) - 4) : IsDigits(SubSeq(s, i, i + 4)) }
    IN IF hits = {} THEN NaN
       ELSE LET first == CHOOSE i \in hits : \A j \in hits : i <= j
            IN Str(SubSeq(s, first, first + 4))

\* extracted.fillna(df["zip_code"]), per cell: the extraction of this source
\* wins, the value held so far fills in where it is missing
fillna(extracted, held) == IF isna(extracted) THEN held ELSE extracted

RECURSIVE ZipFrom(_, _, _, _)
\* df["zip_code"] = None; for src in ZIP_SOURCES: if src in df: ..., for one row
\* from the i-th source on, held the zip_code so far
ZipFrom(df, row, i, held) ==
    IF i > Len(ZIP_SOURCES) THEN held
    ELSE IF HasColumn(df, ZIP_SOURCES[i])
         THEN ZipFrom(df, row, i + 1,
                      fillna(str_extract(astype_str(Cell(df, row, ZIP_SOURCES[i]))), held))
         ELSE ZipFrom(df, row, i + 1, held)

\* Series.astype("float64") succeeds on every cell of the column
CanFloat(df, name) ==
    \A k \in 1..Len(df.rows) :
        LET cell == Cell(df, df.rows[k], name)
        IN isna(cell) \/ cell[1] \in {"int", "float"}
              \/ (cell[1] = "str" /\ IsFloatText(cell[2]))

astype_float(cell) ==
    IF isna(cell) THEN NaN
    ELSE IF cell[1] = "int" THEN Float64(10 * cell[2])
    ELSE IF cell[1] = "str" THEN Float64(FloatOf(cell[2]))
    ELSE cell

\* df[name] = df[name].astype("float64")
AsFloatColumn(df, name) ==
    SetColumn(df, name,
        Tuple([k \in 1..Len(df.rows) |-> astype_float(Cell(df, df.rows[k], name))]))

\* a range test with >= and <=, which the boundary values pass
InRangeInclusive(lat, lon) ==
    /\ ~isna(lat) /\ ~isna(lon)
    /\ lat[2] >= (0 - 90) * 10 /\ lat[2] <= 90 * 10
    /\ lon[2] >= (0 - 180) * 10 /\ lon[2] <= 180 * 10

\* (lat > -90) & (lat < 90) & (lon > -180) & (lon < 180); a comparison with NaN
\* is False
InRange(lat, lon) ==
    /\ ~isna(lat) /\ ~isna(lon)
    /\ lat[2] > (0 - 90) * 10 /\ lat[2] < 90 * 10
    /\ lon[2] > (0 - 180) * 10 /\ lon[2] < 180 * 10

\* a dropna(how="all"): a row goes only when every column of the subset is missing
dropna_all(df, subset) ==
    Take(df, { k \in 1..Len(df.rows) :
                 \E i \in 1..Len(subset) : ~isna(Cell(df, df.rows[k], subset[i])) })

\* df.dropna(subset=...): a row goes when any column of the subset is missing
dropna(df, subset) ==
    Take(df, { k \in 1..Len(df.rows) :
                 \A i \in 1..Len(subset) : ~isna(Cell(df, df.rows[k], subset[i])) })

\* the header of the city's csv export, and the same header in snake case
TitleHeader ==
    << "Permit Num", "Original Address 1", "Original Zip", "Contractor Zip",
       "Applicant Zip", "Latitude", "Longitude", "Issued Date" >>

SnakeHeader ==
    << "permit_num", "original_address_1", "original_zip", "contractor_zip",
       "applicant_zip", "latitude", "longitude", "issued_date" >>

\* the header of an export that writes one name with three spaces
SpacedHeader == [TitleHeader EXCEPT ![8] = "Issued   Date"]

\* the column names of the csv files of the model
CsvColumnNames ==
    { TitleHeader[i] : i \in 1..Len(TitleHeader) }
        \cup { SnakeHeader[i] : i \in 1..Len(SnakeHeader) }
        \cup { SpacedHeader[i] : i \in 1..Len(SpacedHeader) } \cup { "zip_code" }

\* df.columns.str.lower().str.replace(" ", "_").str.replace("__", "_")
NormalizeColumn(name) == replace(replace(lower(name), " ", "_"), "__", "_")

\* the column names a table of the model can carry: those of the csv files
\* and what one or two runs of a normalizer make of them
ColumnNames ==
    CsvColumnNames
        \cup { lower(name) : name \in CsvColumnNames }
        \cup { NormalizeColumn(name) : name \in CsvColumnNames }
        \cup { NormalizeColumn(NormalizeColumn(name)) : name \in CsvColumnNames }

\* NormalizeColumn and lower of every column name, computed once
NormalizedColumns == [name \in ColumnNames |-> NormalizeColumn(name)]
LoweredColumns == [name \in ColumnNames |-> lower(name)]

\* what a call leaves behind: the exception raised (None when it returned), the
\* caller's table object after the call, and the table returned
Outcome(exc, caller, df) == [raised |-> exc, frame |-> caller, df |-> df]

\* the tail of clean_permit_data: "Remove invalid rows"
RemoveInvalid(df) ==
    IF HasColumn(df, "permit_num") /\ HasColumn(df, "original_address_1")
    THEN dropna(df, << "permit_num", "original_address_1" >>)
    ELSE df

\* clean_permit_data(df).  The column names, the date columns, zip_code and the
\* float casts are written to the caller's table object; the two filters rebind
\* the local name.  The csv of the model has none of the NUMERIC_COLUMNS.
clean_permit_data(df) ==
    LET named == [df EXCEPT !.columns =
                     Tuple([j \in 1..Len(df.columns) |-> NormalizedColumns[df.columns[j]]])]
        dated == parse_dates_cpu(named)
        zipped == SetColumn(dated, "zip_code",
                     Tuple([k \in 1..Len(dated.rows) |->
                              ZipFrom(dated, dated.rows[k], 1, PyNone)]))
    IN IF ~(HasColumn(zipped, "latitude") /\ HasColumn(zipped, "longitude"))
       THEN Outcome(None, zipped, RemoveInvalid(zipped))
       ELSE IF ~CanFloat(zipped, "latitude")
       THEN Outcome(Some("ValueError"), zipped, <<>>)
       ELSE LET lat == AsFloatColumn(zipped, "latitude")
            IN IF ~CanFloat(lat, "longitude")
               THEN Outcome(Some("ValueError"), lat, <<>>)
               ELSE LET cast == AsFloatColumn(lat, "longitude")
                        kept == Take(cast, { k \in 1..Len(cast.rows) :
                                    InRange(Cell(cast, cast.rows[k], "latitude"),
                                            Cell(cast, cast.rows[k], "longitude")) })
                    IN Outcome(None, cast, RemoveInvalid(kept))

\* UnifiedDataCleaner._parse_dates: the same five columns, the same
\* pd.to_datetime(errors='coerce')
parse_dates(df) == parse_dates_cpu(df)

\* the column holds a str cell, which `>=` cannot compare with a float
HasStr(df, name) ==
    \E k \in 1..Len(df.rows) : Cell(df, df.rows[k], name)[1] = "str"

\* the value of a numeric cell, in tenths
Tenths(cell) == IF cell[1] = "int" THEN 10 * cell[2] ELSE cell[2]

\* Austin bounds: 30.0 <= lat <= 30.6, -98.0 <= lon <= -97.5
InAustin(lat, lon) ==
    /\ ~isna(lat) /\ ~isna(lon)
    /\ Tenths(lat) >= 300 /\ Tenths(lat) <= 306
    /\ Tenths(lon) >= 0 - 980 /\ Tenths(lon) <= 0 - 975

\* UnifiedDataCleaner._filter_coordinates
filter_coordinates(df) ==
    reset_index(Take(df, { k \in 1..Len(df.rows) :
                             InAustin(Cell(df, df.rows[k], "latitude"),
                                      Cell(df, df.rows[k], "longitude")) }))

RECURSIVE UnifiedZipFrom(_, _, _, _)
\* UnifiedDataCleaner._extract_zip, the loop over the sources for one row: a
\* source fills zip_code only where it is still missing
UnifiedZipFrom(df, row, i, held) ==
    IF i > Len(ZIP_SOURCES) THEN held
    ELSE IF HasColumn(df, ZIP_SOURCES[i]) /\ isna(held)
         THEN UnifiedZipFrom(df, row, i + 1, Cell(df, row, ZIP_SOURCES[i]))
         ELSE UnifiedZipFrom(df, row, i + 1, held)

\* UnifiedDataCleaner._extract_zip, for one row
extract_zip(df, row) ==
    LET text == replace(astype_str(UnifiedZipFrom(df, row, 1, PyNone)), ".0", "")
    IN Str(IF text = "nan" THEN "UNKNOWN" ELSE text)

\* UnifiedDataCleaner.clean(df).  Only the lowercased column names are written
\* to the caller's table object: _filter_coordinates returns a new table.
UnifiedDataCleaner_clean(df) ==
    LET named == [df EXCEPT !.columns =
                     Tuple([j \in 1..Len(df.columns) |-> LoweredColumns[df.columns[j]]])]
    IN IF ~HasColumn(named, "latitude") THEN Outcome(Some("KeyError"), named, <<>>)
       ELSE IF HasStr(named, "latitude") THEN Outcome(Some("TypeError"), named, <<>>)
       ELSE IF ~HasColumn(named, "longitude") THEN Outcome(Some("KeyError"), named, <<>>)
       ELSE IF HasStr(named, "longitude") THEN Outcome(Some("TypeError"), named, <<>>)
       ELSE LET dated == parse_dates(filter_coordinates(named))
            IN Outcome(None, named,
                  SetColumn(dated, "zip_code",
                     Tuple([k \in 1..Len(dated.rows) |->
                              extract_zip(dated, dated.rows[k])])))

----------------------------------------------------------------------------
(* The incremental path (incremental_update.py)                            *)

\* row.get(name) of a csv.DictReader row: None when the header lacks the name
get(file, row, name) ==
    IF \E j \in 1..Len(file.columns) : file.columns[j] = name
    THEN Some(row[CHOOSE j \in 1..Len(file.columns) : file.columns[j] = name])
    ELSE None

\* Python's `a or b` on optional texts: None and "" are falsy
Or(a, b) == IF a # None /\ a # Some("") THEN a ELSE b

\* the permit number find_new_permits tests for membership
scanned_permit_num(file, row) ==
    strip(Or(get(file, row, "Permit Num"),
          Or(get(file, row, "permit_num"),
          Or(get(file, row, "Permit Number"),
          Or(get(file, row, "permit_number"), Some("")))))[1])

\* find_new_permits(existing_permits): the positions of the rows selected
find_new_permits(file, existing_permits) ==
    SetToSeq({ k \in 1..Len(file.rows) :
                 /\ scanned_permit_num(file, file.rows[k]) # ""
                 /\ scanned_permit_num(file, file.rows[k]) \notin existing_permits })

\* the try block of prepare_permit: float(lat_str) comes first, and a
\* ValueError leaves what was not yet assigned at None
LatLon(lat_str, lon_str) ==
    IF lat_str # "" /\ ~IsFloatText(lat_str) THEN [lat |-> None, lon |-> None]
    ELSE LET lat == IF lat_str = "" THEN None ELSE Some(FloatOf(lat_str))
         IN IF lon_str # "" /\ ~IsFloatText(lon_str) THEN [lat |-> lat, lon |-> None]
            ELSE [lat |-> lat,
                  lon |-> IF lon_str = "" THEN None ELSE Some(FloatOf(lon_str))]

\* "Clean date format - take just the date part"
DatePart(issue_date) ==
    IF issue_date = None \/ issue_date = Some("") THEN issue_date
    ELSE IF Contains(issue_date[1], "T") THEN Some(split_first(issue_date[1], "T"))
    ELSE IF Contains(issue_date[1], " ") THEN Some(split_first(issue_date[1], " "))
    ELSE issue_date

\* prepare_permit(row): the fields of the tuple that come from the columns of
\* the model (the csv of the model has no description or valuation column)
prepare_permit(file, row) ==
    LET permit_num == strip(Or(get(file, row, "Permit Num"),
                            Or(get(file, row, "permit_num"),
                            Or(get(file, row, "Permit Number"), Some(""))))[1])
        address == Or(get(file, row, "Original Address1"),
                   Or(get(file, row, "original_address_1"),
                   Or(get(file, row, "Original Address 1"), None)))
        zip_raw == Or(get(file, row, "Original Zip"),
                   Or(get(file, row, "original_zip"),
                   Or(get(file, row, "Contractor Zip"), Some("UNKNOWN"))))
        zip_code == strip(replace(zip_raw[1], ".0", ""))
        coords == LatLon(Or(get(file, row, "Latitude"),
                         Or(get(file, row, "latitude"), Some("")))[1],
                         Or(get(file, row, "Longitude"),
                         Or(get(file, row, "longitude"), Some("")))[1])
        issue_date == Or(get(file, row, "Issued Date"),
                      Or(get(file, row, "issued_date"),
                      Or(get(file, row, "Issue Date"), None)))
    IN [permit_number |-> permit_num,
        address |-> address,
        zip_code |-> IF zip_code = "" \/ zip_code = "nan" THEN "UNKNOWN" ELSE zip_code,
        latitude |-> coords.lat,
        longitude |-> coords.lon,
        issue_date |-> DatePart(issue_date)]

----------------------------------------------------------------------------
(* The specification of the normalizers: a csv file is loaded and cleaned  *)
(* by either cleaner, or scanned and prepared by the incremental path      *)

MaxRows == 2

AllFields == << 1, 2, 3, 4, 5, 6, 7, 8 >>

\* an export without the address and the longitude column
FewerFields == << 1, 3, 4, 5, 6, 8 >>

\* the csv rows of the model, in the field order of the headers: a row with
\* every field well-formed, and rows that differ from it in the coordinates
\* (and zips), in the required fields, or in the date
CsvRows ==
    { << "P1", "1 Main St", "78704", "73301", "78610", "30.3", "-97.7", "2024-01-05" >>,
      << "P1", "1 Main St", "78704", "73301", "78610", "90", "-180", "2024-01-05" >>,
      << "P1", "1 Main St", "787", "", "78610", "200", "-97.7", "2024-01-05" >>,
      << "P1", "1 Main St", "78704", "73301", "78610", "", "-97.7", "2024-01-05" >>,
      << "P1", "1 Main St", "78704", "73301", "78610", "abc", "-97.7", "2024-01-05" >>,
      << "P1", "1 Main St", "", "73301", "", "30.6", "-97.5", "2024-01-05" >>,
      << "P1", "1 Main St", "", "", "", "40.7", "-74", "2024-01-05" >>,
      << "", "1 Main St", "nan", "", "", "30.3", "-97.7", "2024-01-05" >>,
      << "P1", "", "78704", "73301", "78610", "30.3", "-97.7", "2024-01-05" >>,
      << "", "", "78704", "73301", "78610", "30.3", "-97.7", "2024-01-05" >>,
      << "P1", "1 Main St", "78704", "73301", "78610", "30.3", "-97.7", "not-a-date" >>,
      << "P1", "1 Main St", "78704", "73301", "78610", "30.3", "-97.7", "TBD" >>,
      << "P1", "1 Main St", "78704", "73301", "78610", "30.3", "-97.7", "to be set" >>,
      << "P1", "1 Main St", "78704", "73301", "78610", "30.3", "-97.7", "" >> }

\* the fields kept, in order
Project(seq, fields) == Tuple([i \in 1..Len(fields) |-> seq[fields[i]]])

RowLists == UNION { [1..n -> CsvRows] : n \in 0..MaxRows }

CsvFiles ==
    { [columns |-> Project(h.names, h.fields),
       rows |-> Tuple([k \in 1..Len(rs) |-> Project(rs[k], h.fields)])] :
        h \in { [names |-> TitleHeader, fields |-> AllFields],
                [names |-> SnakeHeader, fields |-> AllFields],
                [names |-> SnakeHeader, fields |-> FewerFields] },
        rs \in RowLists }

InitClean ==
    /\ pc = "csv"
    /\ csv \in CsvFiles
    /\ frame = <<>> /\ cleaned = <<>> /\ prepared = <<>>
    /\ description = None /\ centroids = <<>> /\ result = None
    /\ IdleStore
    /\ IdleKMeans
    /\ IdleAggregates
    /\ IdleLlm
    /\ IdleExtract
    /\ IdlePool
    /\ IdleEntry
    /\ IdleNamer
    /\ IdleAgain
    /\ IdleAll

\* df = load_csv(path)
load_csv ==
    /\ pc = "csv"
    /\ frame' = read_csv(csv)
    /\ pc' = "loaded"
    /\ UNCHANGED <<csv, cleaned, prepared>>
    /\ UNCHANGED assignVars
    /\ UNCHANGED storeVars
    /\ UNCHANGED kmeansVars
    /\ UNCHANGED aggVars
    /\ UNCHANGED llmVars
    /\ UNCHANGED extractVars
    /\ UNCHANGED poolVars
    /\ UNCHANGED entryVars
    /\ UNCHANGED namerVars
    /\ UNCHANGED againVars
    /\ UNCHANGED allVars

\* df = clean_permit_data(df)
CleanPermitData ==
    /\ pc = "loaded"
    /\ LET out == clean_permit_data(frame)
       IN /\ frame' = out.frame
          /\ cleaned' = [by |-> "clean_permit_data", raised |-> out.raised, df |-> out.df]
    /\ pc' = "cleaned"
    /\ UNCHANGED <<csv, prepared>>
    /\ UNCHANGED assignVars
    /\ UNCHANGED storeVars
    /\ UNCHANGED kmeansVars
    /\ UNCHANGED aggVars
    /\ UNCHANGED llmVars
    /\ UNCHANGED extractVars
    /\ UNCHANGED poolVars
    /\ UNCHANGED entryVars
    /\ UNCHANGED namerVars
    /\ UNCHANGED againVars
    /\ UNCHANGED allVars

\* df = UnifiedDataCleaner().clean(df)
UnifiedClean ==
    /\ pc = "loaded"
    /\ LET out == UnifiedDataCleaner_clean(frame)
       IN /\ frame' = out.frame
          /\ cleaned' = [by |-> "UnifiedDataCleaner", raised |-> out.raised, df |-> out.df]
    /\ pc' = "cleaned"
    /\ UNCHANGED <<csv, prepared>>
    /\ UNCHANGED assignVars
    /\ UNCHANGED storeVars
    /\ UNCHANGED kmeansVars
    /\ UNCHANGED aggVars
    /\ UNCHANGED llmVars
    /\ UNCHANGED extractVars
    /\ UNCHANGED poolVars
    /\ UNCHANGED entryVars
    /\ UNCHANGED namerVars
    /\ UNCHANGED againVars
    /\ UNCHANGED allVars

\* new_rows = find_new_permits(existing) against an empty store, then
\* prepare_permit(row) for every new row
PreparePermits ==
    /\ pc = "csv"
    /\ LET new_rows == find_new_permits(csv, {})
       IN prepared' = [i \in 1..Len(new_rows) |->
                          [row |-> new_rows[i],
                           permit |-> prepare_permit(csv, csv.rows[new_rows[i]])]]
    /\ pc' = "prepared"
    /\ UNCHANGED <<csv, frame, cleaned>>
    /\ UNCHANGED assignVars
    /\ UNCHANGED storeVars
    /\ UNCHANGED kmeansVars
    /\ UNCHANGED aggVars
    /\ UNCHANGED llmVars
    /\ UNCHANGED extractVars
    /\ UNCHANGED poolVars
    /\ UNCHANGED entryVars
    /\ UNCHANGED namerVars
    /\ UNCHANGED againVars
    /\ UNCHANGED allVars

NextClean == load_csv \/ CleanPermitData \/ UnifiedClean \/ PreparePermits

SpecClean == InitClean /\ [][NextClean]_vars

----------------------------------------------------------------------------
(* The keyword extractor (nlp/enrichment.py)                               *)

TEXT_COLUMNS ==
    << "description", "work_class", "permit_class", "permit_type_desc", "permit_type" >>

\* f"f_{col}_kw_{kw}"
FeatureColumn(col, kw) == "f_" \o col \o "_kw_" \o kw

\* the cells a text column of the model holds: a missing text, an empty one,
\* and texts with and without keywords
TextCells == { NaN, Str(""), Str("New roof"), Str("RESIDENTIAL Remodel"), Str("Fence") }

\* df[col].fillna("").str.lower(), per cell
safe_col(cell) == IF isna(cell) THEN "" ELSE lower(cell[2])

\* safe_col.str.contains(kw.lower(), regex=False).astype(int), per cell, for
\* every keyword
KeywordFlags(cell) ==
    [i \in 1..Len(NLP_KEYWORDS) |->
        IF Contains(safe_col(cell), lower(NLP_KEYWORDS[i])) THEN 1 ELSE 0]

\* KeywordFlags of every text cell, computed once
KeywordFlagTable == [cell \in TextCells |-> KeywordFlags(cell)]

RECURSIVE EnrichFrom(_, _, _, _)
\* the two loops of nlp_enrich, from the c-th text column and its i-th keyword
\* on: a text column the table lacks is skipped
EnrichFrom(df, text_cols, c, i) ==
    IF c > Len(text_cols) THEN df
    ELSE IF ~HasColumn(df, text_cols[c]) \/ i > Len(NLP_KEYWORDS)
         THEN EnrichFrom(df, text_cols, c + 1, 1)
         ELSE EnrichFrom(
                  SetColumn(df, FeatureColumn(text_cols[c], NLP_KEYWORDS[i]),
                      Tuple([k \in 1..Len(df.rows) |->
                          Int64(KeywordFlagTable[Cell(df, df.rows[k], text_cols[c])][i])])),
                  text_cols, c, i + 1)

\* nlp_enrich(df, text_cols)
nlp_enrich(df, text_cols) == EnrichFrom(df, text_cols, 1, 1)

MaxTextRows == 2

\* the rows of the model, one cell per text column
TextRows ==
    { << Str("New roof"), Str("RESIDENTIAL Remodel"), Str("Fence"), Str(""), NaN >>,
      << NaN, NaN, NaN, NaN, NaN >>,
      << Str("Fence"), Str(""), Str("New roof"), NaN, Str("RESIDENTIAL Remodel") >> }

\* the ascending lists of positions of the text columns a table carries: the
\* description and any of the others
TextFields == { SetToSeq({1} \cup S) : S \in SUBSET (2..Len(TEXT_COLUMNS)) }

TextTables ==
    { [columns |-> Project(TEXT_COLUMNS, fields),
       index |-> Tuple([k \in 1..Len(rs) |-> k - 1]),
       rows |-> Tuple([k \in 1..Len(rs) |-> Project(rs[k], fields)])] :
        fields \in TextFields,
        rs \in UNION { [1..n -> TextRows] : n \in 0..MaxTextRows } }

InitEnrich ==
    /\ pc = "table"
    /\ frame \in TextTables
    /\ csv = <<>> /\ cleaned = <<>> /\ prepared = <<>>
    /\ description = None /\ centroids = <<>> /\ result = None
    /\ IdleStore
    /\ IdleKMeans
    /\ IdleAggregates
    /\ IdleLlm
    /\ IdleExtract
    /\ IdlePool
    /\ IdleEntry
    /\ IdleNamer
    /\ IdleAgain
    /\ IdleAll

\* nlp_enriched_df = nlp_enrich(clean_df, TEXT_COLUMNS)
NlpEnrich ==
    /\ pc = "table"
    /\ frame' = nlp_enrich(frame, TEXT_COLUMNS)
    /\ pc' = "enriched"
    /\ UNCHANGED <<csv, cleaned, prepared>>
    /\ UNCHANGED assignVars
    /\ UNCHANGED storeVars
    /\ UNCHANGED kmeansVars
    /\ UNCHANGED aggVars
    /\ UNCHANGED llmVars
    /\ UNCHANGED extractVars
    /\ UNCHANGED poolVars
    /\ UNCHANGED entryVars
    /\ UNCHANGED namerVars
    /\ UNCHANGED againVars
    /\ UNCHANGED allVars

NextEnrich == NlpEnrich

SpecEnrich == InitEnrich /\ [][NextEnrich]_vars

----------------------------------------------------------------------------
(* The clusterers (clustering/kmeans.py, clustering_unified.py).           *)
(* StandardScaler, PCA and KMeans are library classes.  The model keeps of *)
(* them what the code relies on: the argument checks that raise ValueError *)
(* (no sample; more components than min(n_samples, n_features); more       *)
(* clusters than samples) and labels that are a function of the matrix,    *)
(* the number of clusters and the seed of the random initialisation.       *)

MaxSamples == 3
MaxFeatures == 2
MaxK == 3
MaxPca == 2
MaxSeed == 1

Seeds == 0..MaxSeed

Min3(a, b, c) == Min(a, Min(b, c))

StartsWith(name, prefix) ==
    Len(name) >= Len(prefix) /\ SubSeq(name, 1, Len(prefix)) = prefix

\* [c for c in df.columns if c.startswith(feature_prefix)]
feature_cols_kmeans(df, feature_prefix) ==
    SelectSeq(df.columns, LAMBDA c : StartsWith(c, feature_prefix))

\* [c for c in df.columns if c.startswith(feature_prefix) and c != 'f_cluster']
feature_cols_unified(df, feature_prefix) ==
    SelectSeq(df.columns, LAMBDA c : StartsWith(c, feature_prefix) /\ c # "f_cluster")

\* df[feature_cols] as a matrix of numbers, one row per sample
Matrix(df, cols) ==
    [k \in 1..Len(df.rows) |-> [j \in 1..Len(cols) |-> Cell(df, df.rows[k], cols[j])[2]]]

SqDist(x, y) == SumTo([j \in 1..Len(x) |-> (x[j] - y[j]) * (x[j] - y[j])], Len(x))

\* the random initialisation of k-means: n_clusters samples picked by the seed
InitialCenters(X, n_clusters, seed) ==
    [c \in 1..n_clusters |-> X[((seed + c - 1) % Len(X)) + 1]]

\* KMeans(n_clusters, random_state=seed).fit_predict(X): every sample gets
\* the label of the nearest centre, the lowest label on a tie
KMeansLabels(X, n_clusters, seed) ==
    LET centers == InitialCenters(X, n_clusters, seed)
    IN [k \in 1..Len(X) |->
           (CHOOSE c \in 1..n_clusters :
               \A d \in 1..n_clusters :
                   \/ SqDist(X[k], centers[c]) < SqDist(X[k], centers[d])
                   \/ SqDist(X[k], centers[c]) = SqDist(X[k], centers[d]) /\ c <= d) - 1]

\* what one run of a clusterer did: the exception it raised, the table it
\* returned, the n_components PCA was built with and the n_clusters and
\* random_state KMeans was built with (None: not built, not passed), and the
\* seed the initialisation used
Run(raised, df, n_components, n_clusters, random_state, seed) ==
    [raised |-> raised, df |-> df, n_components |-> n_components,
     n_clusters |-> n_clusters, random_state |-> random_state, seed |-> seed]

\* df["f_cluster"] = labels
WithLabels(df, labels) ==
    SetColumn(df, "f_cluster", Tuple([k \in 1..Len(df.rows) |-> Int64(labels[k])]))

\* the seed KMeans uses when the caller passes no random_state: the default
\* random_state=1 of cuml.cluster.KMeans, a seed drawn from the operating
\* system for sklearn.cluster.KMeans (random_state=None)
DefaultSeed(backend, entropy) == IF backend = "cuml" THEN 1 ELSE entropy

\* run_cuml_clustering(df) with the parameters of CLUSTERING_PARAMS
run_cuml_clustering(df, params, entropy) ==
    LET feature_cols == feature_cols_kmeans(df, "f_")
        X == Matrix(df, feature_cols)
        n_samples == Len(X)
        n_components == Min3(params.n_pca_components, Len(feature_cols), n_samples)
        n_clusters == Min(params.n_clusters, n_samples)
        pca == IF n_components < 2 THEN None ELSE Some(n_components)
        seed == DefaultSeed(params.backend, entropy)
    IN IF Len(feature_cols) = 0 THEN Run(None, df, None, None, None, None)
       ELSE IF n_samples = 0
            THEN Run(Some("ValueError"), df, None, None, None, None)
       ELSE IF n_clusters < 2
            THEN Run(None, WithLabels(df, [k \in 1..n_samples |-> 0]),
                     pca, None, None, None)
       ELSE Run(None, WithLabels(df, KMeansLabels(X, n_clusters, seed)),
                pca, Some(n_clusters), None, Some(seed))

\* UnifiedClustering(n_clusters, n_pca_components, random_state=random_state)
\* .fit_predict(df, feature_columns), on the sklearn backend
fit_predict(df, feature_columns, params) ==
    LET X == Matrix(df, feature_columns)
        n_samples == Len(X)
        n_features == Len(feature_columns)
    IN IF n_samples = 0 \/ n_features = 0
       THEN [raised |-> Some("ValueError"), labels |-> None,
             n_components |-> None, n_clusters |-> None]
       ELSE IF params.n_pca_components > Min(n_samples, n_features)
       THEN [raised |-> Some("ValueError"), labels |-> None,
             n_components |-> Some(params.n_pca_components), n_clusters |-> None]
       ELSE IF params.n_clusters > n_samples
       THEN [raised |-> Some("ValueError"), labels |-> None,
             n_components |-> Some(params.n_pca_components),
             n_clusters |-> Some(params.n_clusters)]
       ELSE [raised |-> None,
             labels |-> Some(KMeansLabels(X, params.n_clusters, params.random_state)),
             n_components |-> Some(params.n_pca_components),
             n_clusters |-> Some(params.n_clusters)]

\* UnifiedClustering.add_clusters_to_df(df)
add_clusters_to_df(df, params) ==
    LET feature_cols == feature_cols_unified(df, "f_")
        fitted == fit_predict(df, feature_cols, params)
    IN IF Len(feature_cols) = 0
       THEN Run(Some("ValueError"), df, None, None, None, None)
       ELSE IF fitted.raised # None
       THEN Run(fitted.raised, df, fitted.n_components, fitted.n_clusters,
                IF fitted.n_clusters = None THEN None ELSE Some(params.random_state), None)
       ELSE Run(None, WithLabels(df, fitted.labels[1]), fitted.n_components,
                fitted.n_clusters, Some(params.random_state), Some(params.random_state))

\* the feature tables of the model: a permit number and the first f feature
\* columns, the first n samples; sample k carries the binary digits of k
FeatureNames == [j \in 1..MaxFeatures |-> "f_" \o CharAt(DigitChars, j + 1)]

FeatureTables ==
    { [columns |-> <<"permit_num">> \o SubSeq(FeatureNames, 1, f),
       index |-> Tuple([k \in 1..n |-> k - 1]),
       rows |-> Tuple([k \in 1..n |->
                   <<Int64(k)>> \o [j \in 1..f |-> Int64((k \div (2 ^ (j - 1))) % 2)]])] :
        n \in 0..MaxSamples, f \in 0..MaxFeatures }

Clusterers ==
    [impl : {"run_cuml_clustering"}, backend : {"cuml", "sklearn"},
     n_clusters : 1..MaxK, n_pca_components : 1..MaxPca, random_state : {None}]
    \cup
    [impl : {"UnifiedClustering"}, backend : {"sklearn"},
     n_clusters : 1..MaxK, n_pca_components : 1..MaxPca, random_state : Seeds]

InitKMeans ==
    /\ pc = "features"
    /\ frame \in FeatureTables
    /\ clusterer \in Clusterers
    /\ fits = <<>>
    /\ csv = <<>> /\ cleaned = <<>> /\ prepared = <<>>
    /\ description = None /\ centroids = <<>> /\ result = None
    /\ IdleStore
    /\ IdleAggregates
    /\ IdleLlm
    /\ IdleExtract
    /\ IdlePool
    /\ IdleEntry
    /\ IdleNamer
    /\ IdleAgain
    /\ IdleAll

\* a pipeline run that clusters the table with run_cuml_clustering
RunCumlClustering ==
    /\ clusterer.impl = "run_cuml_clustering"
    /\ Len(fits) < 2
    /\ \E entropy \in Seeds :
          fits' = Append(fits, run_cuml_clustering(frame, clusterer, entropy))
    /\ pc' = "clustered"
    /\ UNCHANGED <<frame, clusterer>>
    /\ UNCHANGED <<csv, cleaned, prepared>>
    /\ UNCHANGED assignVars
    /\ UNCHANGED storeVars
    /\ UNCHANGED aggVars
    /\ UNCHANGED llmVars
    /\ UNCHANGED extractVars
    /\ UNCHANGED poolVars
    /\ UNCHANGED entryVars
    /\ UNCHANGED namerVars
    /\ UNCHANGED againVars
    /\ UNCHANGED allVars

\* a pipeline run that clusters the table with UnifiedClustering
AddClustersToDf ==
    /\ clusterer.impl = "UnifiedClustering"
    /\ Len(fits) < 2
    /\ fits' = Append(fits, add_clusters_to_df(frame, clusterer))
    /\ pc' = "clustered"
    /\ UNCHANGED <<frame, clusterer>>
    /\ UNCHANGED <<csv, cleaned, prepared>>
    /\ UNCHANGED assignVars
    /\ UNCHANGED storeVars
    /\ UNCHANGED aggVars
    /\ UNCHANGED llmVars
    /\ UNCHANGED extractVars
    /\ UNCHANGED poolVars
    /\ UNCHANGED entryVars
    /\ UNCHANGED namerVars
    /\ UNCHANGED againVars
    /\ UNCHANGED allVars

NextKMeans ==
    \/ RunCumlClustering
    \/ AddClustersToDf

SpecKMeans == InitKMeans /\ [][NextKMeans]_vars

----------------------------------------------------------------------------
(* Specification SpecIncremental: runs of incremental_update.py main() on  *)
(* one csv file against a store that already holds permits, and the        *)
(* aggregate tables its update_aggregates rewrites.                        *)

\* an export whose permit number column is named permit_number
NumberHeader == [SnakeHeader EXCEPT ![1] = "permit_number"]

\* the csv rows of the model: two permits and a row without a permit number
UpdateRows ==
    { << "P1", "1 Main St", "78704", "73301", "78610", "30.3", "-97.7", "2024-01-05" >>,
      << "P2", "2 Oak Ave", "78745", "", "", "30.2", "-97.8", "2023-03-01T00:00:00" >>,
      << "", "3 Elm St", "78704", "", "", "30.3", "-97.7", "2024-02-01" >> }

UpdateFiles ==
    { [columns |-> names, rows |-> rs] :
        names \in { SnakeHeader, NumberHeader },
        rs \in UNION { [1..n -> UpdateRows] : n \in 0..MaxRows } }

\* a row of the permits table, as far as the aggregates and the labels go
Permit(permit_number, zip_code, cluster_id, energy_type, issue_date, trade) ==
    [permit_number |-> permit_number, zip_code |-> zip_code, cluster_id |-> cluster_id,
     is_energy_permit |-> energy_type # None, energy_type |-> energy_type,
     issue_date |-> issue_date, trade |-> trade]

\* the tuple prepare_permit returns for a row, as a row of the permits table:
\* cluster_id and the labels are None; the csv of the model has no
\* description column, so detect_energy_type returns None
PreparedPermit(file, row) ==
    LET t == prepare_permit(file, row)
    IN Permit(t.permit_number, t.zip_code, None, None, t.issue_date, None)

\* the stores a run can find: permit P1 of the csv and a permit the csv does
\* not have, each present or not, clustered and labelled by earlier runs of
\* the pipeline
StoredP1 == { <<>> } \cup
    { << Permit("P1", "78704", Some(c), Some("solar,battery"), Some("2024-01-05"),
                Some("electrical")) >> : c \in {0, 1} }

StoredP9 == { <<>> } \cup
    { << Permit("P9", "78745", c, None, Some("not-a-date"), Some("roofing")) >> :
          c \in { None, Some(1) } }

Stores == { a \o b : a \in StoredP1, b \in StoredP9 }

\* SELECT permit_number FROM permits, as a set
get_existing_permit_numbers(store) == { store[k].permit_number : k \in 1..Len(store) }

\* an INSERT without the ON CONFLICT clause into a table without the unique
\* index on permit_number
insert_batch_plain(store, batch) == store \o batch

RECURSIVE insert_batch(_, _)
\* INSERT INTO permits ... VALUES batch ON CONFLICT (permit_number) DO NOTHING
insert_batch(store, batch) ==
    IF batch = <<>> THEN store
    ELSE insert_batch(
             IF Head(batch).permit_number \in get_existing_permit_numbers(store)
             THEN store ELSE Append(store, Head(batch)),
             Tail(batch))

\* issue_date ~ '^\d{4}-\d{2}-\d{2}'
MatchesDate(t) ==
    /\ Len(t) >= 10
    /\ CharAt(t, 5) = "-" /\ CharAt(t, 8) = "-"
    /\ IsDigits(SubSeq(t, 1, 4)) /\ IsDigits(SubSeq(t, 6, 7)) /\ IsDigits(SubSeq(t, 9, 10))

\* count(*) over the rows of the store that satisfy the test
CountWhere(store, Test(_)) == Cardinality({ k \in 1..Len(store) : Test(store[k]) })

\* energy_type LIKE '%kind%'
Like(p, kind) == p.energy_type # None /\ Contains(p.energy_type[1], kind)

\* TRUNCATE energy_stats_by_zip; INSERT ... SELECT zip_code, count(*), ...
\* FROM permits WHERE is_energy_permit = true GROUP BY zip_code (of the
\* per-type counts the model keeps solar and battery)
EnergyStatsByZip(store) ==
    { [zip_code |-> z,
       total_energy_permits |->
           CountWhere(store, LAMBDA p : p.is_energy_permit /\ p.zip_code = z),
       solar |-> CountWhere(store, LAMBDA p :
                     p.is_energy_permit /\ p.zip_code = z /\ Like(p, "solar")),
       battery |-> CountWhere(store, LAMBDA p :
                     p.is_energy_permit /\ p.zip_code = z /\ Like(p, "battery"))] :
        z \in { store[k].zip_code : k \in { i \in 1..Len(store) : store[i].is_energy_permit } } }

\* the permit counts in the yearly trends
Dated(p) == p.issue_date # None /\ MatchesDate(p.issue_date[1])

\* EXTRACT(YEAR FROM issue_date::date)::text
YearOf(p) == SubSeq(p.issue_date[1], 1, 4)

\* DELETE FROM trends WHERE period_type = 'year'; INSERT ... SELECT year,
\* 'year', count(*), count(*) FILTER (WHERE is_energy_permit = true), ...
\* FROM permits WHERE issue_date IS NOT NULL AND issue_date ~ ... GROUP BY year
YearlyTrends(old, store) ==
    { t \in old : t.period_type # "year" }
    \cup
    { [period |-> y, period_type |-> "year",
       total_permits |-> CountWhere(store, LAMBDA p : Dated(p) /\ YearOf(p) = y),
       energy_permits |-> CountWhere(store, LAMBDA p :
                              Dated(p) /\ YearOf(p) = y /\ p.is_energy_permit)] :
        y \in { YearOf(store[k]) : k \in { i \in 1..Len(store) : Dated(store[i]) } } }

\* ROUND((cnt::numeric / total * 100)::numeric, 1), in tenths of a percent
Percentage(cnt, all) == (2 * cnt * 1000 + all) \div (2 * all)

\* UPDATE clusters c SET count = sub.cnt, percentage = ... FROM (SELECT
\* cluster_id, count(*) ... GROUP BY cluster_id) sub, (...) total WHERE
\* c.id = sub.cluster_id: a cluster without a row in sub is left as it was
ClusterCounts(old, store) ==
    LET all == CountWhere(store, LAMBDA p : p.cluster_id # None)
    IN [c \in DOMAIN old |->
           LET cnt == CountWhere(store, LAMBDA p : p.cluster_id = Some(c))
           IN IF cnt = 0 THEN old[c]
              ELSE [count |-> cnt, percentage |-> Percentage(cnt, all)]]

MaxRuns == 2

\* what a clusters row holds that was last written for a larger cluster
StaleCluster == [count |-> 7, percentage |-> 500]

InitIncremental ==
    /\ pc = "start"
    /\ csv \in UpdateFiles
    /\ permits \in Stores
    /\ committed = permits
    /\ rows = <<>> /\ updates = <<>> /\ total = 0 /\ again = <<>>
    /\ \E stale \in BOOLEAN :
          /\ clusters = [c \in ClusterIds |->
                            IF stale THEN StaleCluster ELSE [count |-> 0, percentage |-> 0]]
          /\ energy_stats_by_zip =
                 IF stale THEN { [zip_code |-> "78799", total_energy_permits |-> 7,
                                  solar |-> 7, battery |-> 0] }
                 ELSE {}
          /\ trends =
                 { [period |-> "2024-01", period_type |-> "month",
                    total_permits |-> 7, energy_permits |-> 7] }
                 \cup (IF stale THEN { [period |-> "2019", period_type |-> "year",
                                        total_permits |-> 7, energy_permits |-> 7] }
                       ELSE {})
    /\ update_run = [n |-> 0, before |-> permits, inserted |-> 0]
    /\ frame = <<>> /\ cleaned = <<>> /\ prepared = <<>>
    /\ description = None /\ centroids = <<>> /\ result = None
    /\ IdleKMeans
    /\ IdleLlm
    /\ IdleExtract
    /\ IdlePool
    /\ IdleEntry
    /\ IdleNamer
    /\ IdleAgain
    /\ IdleAll

\* existing = get_existing_permit_numbers(conn); new_rows = find_new_permits(existing)
FindNewPermits ==
    /\ pc = "start"
    /\ update_run.n < MaxRuns
    /\ rows' = find_new_permits(csv, get_existing_permit_numbers(permits))
    /\ total' = 0
    /\ update_run' = [update_run EXCEPT !.before = permits, !.inserted = 0]
    /\ pc' = IF rows' = <<>> THEN "aggregate" ELSE "insert"
    /\ UNCHANGED <<permits, committed, updates, again>>
    /\ UNCHANGED <<clusters, energy_stats_by_zip, trends>>
    /\ UNCHANGED assignVars
    /\ UNCHANGED cleanVars
    /\ UNCHANGED kmeansVars
    /\ UNCHANGED llmVars
    /\ UNCHANGED extractVars
    /\ UNCHANGED poolVars
    /\ UNCHANGED entryVars
    /\ UNCHANGED namerVars
    /\ UNCHANGED againVars
    /\ UNCHANGED allVars

\* the tuples of the csv rows at positions from + 1 .. to of new_rows
PreparedBatch(file, new_rows, from, to) ==
    [k \in 1..(to - from) |-> PreparedPermit(file, file.rows[new_rows[from + k]])]

\* insert_new_permits: a full batch inside the loop over new_rows
InsertBatch ==
    /\ pc = "insert"
    /\ Len(rows) - total >= BatchSize
    /\ permits' = insert_batch(permits, PreparedBatch(csv, rows, total, total + BatchSize))
    /\ total' = total + BatchSize
    /\ committed' = IF total' % CommitEvery = 0 THEN permits' ELSE committed
    /\ update_run' = [update_run EXCEPT !.inserted = @ + Len(permits') - Len(permits)]
    /\ UNCHANGED <<pc, rows, updates, again>>
    /\ UNCHANGED <<clusters, energy_stats_by_zip, trends>>
    /\ UNCHANGED assignVars
    /\ UNCHANGED cleanVars
    /\ UNCHANGED kmeansVars
    /\ UNCHANGED llmVars
    /\ UNCHANGED extractVars
    /\ UNCHANGED poolVars
    /\ UNCHANGED entryVars
    /\ UNCHANGED namerVars
    /\ UNCHANGED againVars
    /\ UNCHANGED allVars

\* insert_new_permits: the rest after the loop and the final conn.commit()
InsertRest ==
    /\ pc = "insert"
    /\ Len(rows) - total < BatchSize
    /\ permits' = insert_batch(permits, PreparedBatch(csv, rows, total, Len(rows)))
    /\ total' = Len(rows)
    /\ committed' = permits'
    /\ update_run' = [update_run EXCEPT !.inserted = @ + Len(permits') - Len(permits)]
    /\ pc' = "aggregate"
    /\ UNCHANGED <<rows, updates, again>>
    /\ UNCHANGED <<clusters, energy_stats_by_zip, trends>>
    /\ UNCHANGED assignVars
    /\ UNCHANGED cleanVars
    /\ UNCHANGED kmeansVars
    /\ UNCHANGED llmVars
    /\ UNCHANGED extractVars
    /\ UNCHANGED poolVars
    /\ UNCHANGED entryVars
    /\ UNCHANGED namerVars
    /\ UNCHANGED againVars
    /\ UNCHANGED allVars

\* update_aggregates(conn), one transaction; main() returns
UpdateAggregates ==
    /\ pc = "aggregate"
    /\ energy_stats_by_zip' = EnergyStatsByZip(permits)
    /\ trends' = YearlyTrends(trends, permits)
    /\ clusters' = ClusterCounts(clusters, permits)
    /\ update_run' = [update_run EXCEPT !.n = @ + 1]
    /\ pc' = "done"
    /\ UNCHANGED storeVars
    /\ UNCHANGED assignVars
    /\ UNCHANGED cleanVars
    /\ UNCHANGED kmeansVars
    /\ UNCHANGED llmVars
    /\ UNCHANGED extractVars
    /\ UNCHANGED poolVars
    /\ UNCHANGED entryVars
    /\ UNCHANGED namerVars
    /\ UNCHANGED againVars
    /\ UNCHANGED allVars

\* the process is killed while it inserts: the open transaction is rolled back
CrashInInsert ==
    /\ pc = "insert"
    /\ permits' = committed
    /\ pc' = "start"
    /\ UNCHANGED <<committed, rows, updates, total, again>>
    /\ UNCHANGED aggVars
    /\ UNCHANGED assignVars
    /\ UNCHANGED cleanVars
    /\ UNCHANGED kmeansVars
    /\ UNCHANGED llmVars
    /\ UNCHANGED extractVars
    /\ UNCHANGED poolVars
    /\ UNCHANGED entryVars
    /\ UNCHANGED namerVars
    /\ UNCHANGED againVars
    /\ UNCHANGED allVars

\* incremental_update.py is started again on the same csv
RunAgain ==
    /\ pc = "done"
    /\ update_run.n < MaxRuns
    /\ pc' = "start"
    /\ UNCHANGED storeVars
    /\ UNCHANGED aggVars
    /\ UNCHANGED assignVars
    /\ UNCHANGED cleanVars
    /\ UNCHANGED kmeansVars
    /\ UNCHANGED llmVars
    /\ UNCHANGED extractVars
    /\ UNCHANGED poolVars
    /\ UNCHANGED entryVars
    /\ UNCHANGED namerVars
    /\ UNCHANGED againVars
    /\ UNCHANGED allVars

\* cluster_new_permits.py update_cluster_counts(conn), run between two updates
UpdateClusterCounts ==
    /\ pc = "done"
    /\ clusters' = ClusterCounts(clusters, permits)
    /\ pc' = "counted"
    /\ UNCHANGED <<energy_stats_by_zip, trends, update_run>>
    /\ UNCHANGED storeVars
    /\ UNCHANGED assignVars
    /\ UNCHANGED cleanVars
    /\ UNCHANGED kmeansVars
    /\ UNCHANGED llmVars
    /\ UNCHANGED extractVars
    /\ UNCHANGED poolVars
    /\ UNCHANGED entryVars
    /\ UNCHANGED namerVars
    /\ UNCHANGED againVars
    /\ UNCHANGED allVars

NextIncremental ==
    \/ FindNewPermits
    \/ InsertBatch
    \/ InsertRest
    \/ UpdateAggregates
    \/ CrashInInsert
    \/ RunAgain
    \/ UpdateClusterCounts

SpecIncremental == InitIncremental /\ [][NextIncremental]_vars

----------------------------------------------------------------------------
(* Specification SpecCheckpoint: main() of llm_categorize_batch.py and of  *)
(* llm_categorize_other.py on the sqlite permits table, with the process   *)
(* killed at any point and started again.  The reply of the model is any   *)
(* list of numbered trades.                                                *)

LlmBatchSize == 1
SaveEvery == 2

\* VALID_TRADES, as far as the replies of the model go
VALID_TRADES == { "electrical", "roofing" }

\* what the model can reply to a prompt: nothing usable, or one numbered trade
Replies ==
    { <<>> } \cup
    { << [n |-> n, trade |-> t] >> : n \in 0..(NPermits + 1), t \in { "roofing", "attic" } }

\* the (id, trade) pairs llm_categorize_batch.py writes for a reply: every
\* item of the parsed JSON list, under the id the item carries
updates_batch(batch, reply) ==
    [k \in 1..Len(reply) |-> [id |-> reply[k].n, trade |-> reply[k].trade]]

\* the (id, trade) pairs llm_categorize_other.py writes for a reply: query_ollama
\* keeps a line whose number is a position of the batch and whose trade is valid
updates_other(batch, reply) ==
    LET kept == SelectSeq(reply, LAMBDA item :
                    /\ 0 <= item.n - 1 /\ item.n - 1 < Len(batch)
                    /\ item.trade \in VALID_TRADES)
    IN [k \in 1..Len(kept) |-> [id |-> batch[kept[k].n], trade |-> kept[k].trade]]

RECURSIVE SetTrades(_, _)
\* UPDATE permits SET llm_trade = ? WHERE id = ?, for every pair in turn
SetTrades(store, pairs) ==
    IF pairs = <<>> THEN store
    ELSE SetTrades(
             IF Head(pairs).id \in DOMAIN store
             THEN [store EXCEPT ![Head(pairs).id].llm_trade = Some(Head(pairs).trade)]
             ELSE store,
             Tail(pairs))

\* the content of a progress file that was opened for writing and not written
Truncated == << "", "" >>

\* load_progress(), on a file that holds a dict or does not exist
load_progress(file) == IF file = None THEN [last_id |-> 0, count |-> 0] ELSE file[1]

\* SELECT id, work_description FROM permits WHERE id > last_id AND
\* work_description IS NOT NULL AND work_description != '' ORDER BY id
SelectAfter(store, last_id) ==
    SetToSeq({ p \in DOMAIN store :
                 /\ p > last_id
                 /\ store[p].work_description # None
                 /\ store[p].work_description # Some("") })

InitCheckpoint ==
    /\ pc = "load"
    /\ script \in { "llm_categorize_batch", "llm_categorize_other" }
    /\ permits \in [PermitIds -> [work_description : { None, Some("Reroof") },
                                  llm_trade : { None }]]
    /\ committed = permits
    /\ prog = <<>>
    /\ progress_file = None
    /\ committed_upto = 0
    /\ request = <<>>
    /\ rows = <<>> /\ updates = <<>> /\ total = 0 /\ again = <<>>
    /\ description = None /\ centroids = <<>> /\ result = None
    /\ IdleClean
    /\ IdleKMeans
    /\ IdleAggregates
    /\ IdleExtract
    /\ IdlePool
    /\ IdleEntry
    /\ IdleNamer
    /\ IdleAgain
    /\ IdleAll

\* prog = load_progress(); rows = cur.fetchall(): json.load raises on a
\* file that was truncated; llm_categorize_other returns when no row is left
LoadProgress ==
    /\ pc = "load"
    /\ IF progress_file = Truncated
       THEN /\ pc' = "failed"
            /\ UNCHANGED <<prog, rows>>
       ELSE /\ prog' = load_progress(progress_file)
            /\ rows' = SelectAfter(permits, prog'.last_id)
            /\ pc' = IF script = "llm_categorize_other" /\ rows' = <<>>
                     THEN "done" ELSE "loop"
    /\ total' = 0
    /\ UNCHANGED <<permits, committed, updates, again>>
    /\ UNCHANGED <<script, progress_file, committed_upto, request>>
    /\ UNCHANGED assignVars
    /\ UNCHANGED cleanVars
    /\ UNCHANGED kmeansVars
    /\ UNCHANGED aggVars
    /\ UNCHANGED extractVars
    /\ UNCHANGED poolVars
    /\ UNCHANGED entryVars
    /\ UNCHANGED namerVars
    /\ UNCHANGED againVars
    /\ UNCHANGED allVars

\* one pass of `for i in range(0, total, BATCH_SIZE)`: the query, the
\* updates and the progress dict
ProcessBatch ==
    /\ pc = "loop"
    /\ total < Len(rows)
    /\ \E reply \in Replies :
          LET batch == SubSeq(rows, total + 1, Min(total + LlmBatchSize, Len(rows)))
              pairs == IF script = "llm_categorize_batch"
                       THEN updates_batch(batch, reply)
                       ELSE updates_other(batch, reply)
          IN /\ permits' = SetTrades(permits, pairs)
             /\ request' = [batch |-> batch, reply |-> reply,
                            written |-> { pairs[k].id : k \in 1..Len(pairs) }
                                            \cap DOMAIN permits]
             /\ prog' = [last_id |-> batch[Len(batch)],
                         count |-> prog.count + Len(batch)]
             /\ total' = total + Len(batch)
    /\ pc' = IF total' % SaveEvery = 0 THEN "commit" ELSE "loop"
    /\ UNCHANGED <<committed, rows, updates, again>>
    /\ UNCHANGED <<script, progress_file, committed_upto>>
    /\ UNCHANGED assignVars
    /\ UNCHANGED cleanVars
    /\ UNCHANGED kmeansVars
    /\ UNCHANGED aggVars
    /\ UNCHANGED extractVars
    /\ UNCHANGED poolVars
    /\ UNCHANGED entryVars
    /\ UNCHANGED namerVars
    /\ UNCHANGED againVars
    /\ UNCHANGED allVars

\* the loop is over
EndLoop ==
    /\ pc = "loop"
    /\ total >= Len(rows)
    /\ pc' = "final_commit"
    /\ UNCHANGED storeVars
    /\ UNCHANGED llmVars
    /\ UNCHANGED assignVars
    /\ UNCHANGED cleanVars
    /\ UNCHANGED kmeansVars
    /\ UNCHANGED aggVars
    /\ UNCHANGED extractVars
    /\ UNCHANGED poolVars
    /\ UNCHANGED entryVars
    /\ UNCHANGED namerVars
    /\ UNCHANGED againVars
    /\ UNCHANGED allVars

\* conn.commit()
Commit ==
    /\ pc \in { "commit", "final_commit" }
    /\ committed' = permits
    /\ committed_upto' = prog.last_id
    /\ pc' = IF pc = "commit" THEN "open" ELSE "final_open"
    /\ UNCHANGED <<permits, rows, updates, total, again>>
    /\ UNCHANGED <<script, prog, progress_file, request>>
    /\ UNCHANGED assignVars
    /\ UNCHANGED cleanVars
    /\ UNCHANGED kmeansVars
    /\ UNCHANGED aggVars
    /\ UNCHANGED extractVars
    /\ UNCHANGED poolVars
    /\ UNCHANGED entryVars
    /\ UNCHANGED namerVars
    /\ UNCHANGED againVars
    /\ UNCHANGED allVars

\* save_progress(prog): open(PROGRESS_FILE, 'w') truncates the file
OpenProgressFile ==
    /\ pc \in { "open", "final_open" }
    /\ progress_file' = Truncated
    /\ pc' = IF pc = "open" THEN "dump" ELSE "final_dump"
    /\ UNCHANGED storeVars
    /\ UNCHANGED <<script, prog, committed_upto, request>>
    /\ UNCHANGED assignVars
    /\ UNCHANGED cleanVars
    /\ UNCHANGED kmeansVars
    /\ UNCHANGED aggVars
    /\ UNCHANGED extractVars
    /\ UNCHANGED poolVars
    /\ UNCHANGED entryVars
    /\ UNCHANGED namerVars
    /\ UNCHANGED againVars
    /\ UNCHANGED allVars

\* save_progress(prog): json.dump(prog, f) and the close of the file
DumpProgress ==
    /\ pc \in { "dump", "final_dump" }
    /\ progress_file' = Some(prog)
    /\ pc' = IF pc = "dump" THEN "loop" ELSE "done"
    /\ UNCHANGED storeVars
    /\ UNCHANGED <<script, prog, committed_upto, request>>
    /\ UNCHANGED assignVars
    /\ UNCHANGED cleanVars
    /\ UNCHANGED kmeansVars
    /\ UNCHANGED aggVars
    /\ UNCHANGED extractVars
    /\ UNCHANGED poolVars
    /\ UNCHANGED entryVars
    /\ UNCHANGED namerVars
    /\ UNCHANGED againVars
    /\ UNCHANGED allVars

\* the process is killed and started again: the open transaction is rolled
\* back, what was in memory is gone, the progress file is as it was left
Interrupt ==
    /\ pc \in { "loop", "commit", "final_commit", "open", "final_open", "dump", "final_dump" }
    /\ permits' = committed
    /\ prog' = <<>>
    /\ rows' = <<>>
    /\ total' = 0
    /\ request' = <<>>
    /\ pc' = "load"
    /\ UNCHANGED <<committed, updates, again>>
    /\ UNCHANGED <<script, progress_file, committed_upto>>
    /\ UNCHANGED assignVars
    /\ UNCHANGED cleanVars
    /\ UNCHANGED kmeansVars
    /\ UNCHANGED aggVars
    /\ UNCHANGED extractVars
    /\ UNCHANGED poolVars
    /\ UNCHANGED entryVars
    /\ UNCHANGED namerVars
    /\ UNCHANGED againVars
    /\ UNCHANGED allVars

NextCheckpoint ==
    \/ LoadProgress
    \/ ProcessBatch
    \/ EndLoop
    \/ Commit
    \/ OpenProgressFile
    \/ DumpProgress
    \/ Interrupt

SpecCheckpoint == InitCheckpoint /\ [][NextCheckpoint]_vars

----------------------------------------------------------------------------
(* Specification SpecExtract: runs of extract_vllm.py main() that write    *)
(* batch files, with the process killed between or inside the writes, and  *)
(* the construction_permits table gaining rows between runs.               *)

ExtractBatchSize == 2

\* the permit numbers of the model, in their sort order
PermitNumbers == 1..(NPermits + 1)

\* what the model can reply for one description: nothing usable, a JSON
\* object of features, or one that also has a permit_number key
ExtractReplies == { <<>>, << [permit_number |-> None] >>, << [permit_number |-> Some(0)] >> }

\* extract_one(session, semaphore, permit_num, description): the row of the
\* result, {"permit_number": permit_num, **features}; sent_for records
\* the permit whose description was sent
extract_one(permit_num, reply) ==
    [permit_number |-> IF reply = <<>> \/ reply[1].permit_number = None
                       THEN permit_num ELSE reply[1].permit_number[1],
     sent_for |-> permit_num]

\* SELECT permit_number, description FROM construction_permits WHERE
\* description IS NOT NULL ORDER BY permit_number OFFSET offset LIMIT limit
SelectBatch(table, offset, limit) ==
    LET described == SetToSeq({ p \in DOMAIN table : table[p] # None })
    IN SubSeq(described, offset + 1, Min(offset + limit, Len(described)))

\* the orders in which the requests of a batch can complete
Orders(n) == { f \in [1..n -> 1..n] : \A i, j \in 1..n : f[i] = f[j] => i = j }

\* the tables a first run can find: some of the first NPermits numbers, the
\* description of permit 2 null or not
InitialTables ==
    { [p \in S |-> IF p = 2 /\ null2 THEN None ELSE Some("Install solar panels")] :
        S \in SUBSET (1..NPermits), null2 \in BOOLEAN }

InitExtract ==
    /\ pc = "start"
    /\ construction_permits \in InitialTables
    /\ batch_files = <<>>
    /\ processed = 0
    /\ description = None /\ centroids = <<>> /\ result = None
    /\ IdleStore
    /\ IdleClean
    /\ IdleKMeans
    /\ IdleAggregates
    /\ IdleLlm
    /\ IdlePool
    /\ IdleEntry
    /\ IdleNamer
    /\ IdleAgain
    /\ IdleAll

\* existing = sorted(OUTPUT_DIR.glob("batch_*.csv")); start_offset =
\* len(existing) * BATCH_SIZE; processed = start_offset
StartExtract ==
    /\ pc = "start"
    /\ processed' = Len(batch_files) * ExtractBatchSize
    /\ pc' = "batch"
    /\ UNCHANGED <<construction_permits, batch_files>>
    /\ UNCHANGED assignVars
    /\ UNCHANGED storeVars
    /\ UNCHANGED cleanVars
    /\ UNCHANGED kmeansVars
    /\ UNCHANGED aggVars
    /\ UNCHANGED llmVars
    /\ UNCHANGED poolVars
    /\ UNCHANGED entryVars
    /\ UNCHANGED namerVars
    /\ UNCHANGED againVars
    /\ UNCHANGED allVars

\* SELECT COUNT(*) FROM construction_permits
TotalPermits == Cardinality(DOMAIN construction_permits)

\* the rows of the batch file for the selected permits, in completion order
Results(selected, order, replies) ==
    [k \in 1..Len(selected) |-> extract_one(selected[order[k]], replies[order[k]])]

\* one pass of `while processed < total`: select, extract, df.to_csv
ExtractBatch ==
    /\ pc = "batch"
    /\ processed < TotalPermits
    /\ LET selected == SelectBatch(construction_permits, processed, ExtractBatchSize)
       IN /\ selected # <<>>
          /\ \E order \in Orders(Len(selected)) :
             \E replies \in [1..Len(selected) -> ExtractReplies] :
                /\ batch_files' = Append(batch_files, Results(selected, order, replies))
                /\ processed' = processed + Len(selected)
    /\ UNCHANGED <<pc, construction_permits>>
    /\ UNCHANGED assignVars
    /\ UNCHANGED storeVars
    /\ UNCHANGED cleanVars
    /\ UNCHANGED kmeansVars
    /\ UNCHANGED aggVars
    /\ UNCHANGED llmVars
    /\ UNCHANGED poolVars
    /\ UNCHANGED entryVars
    /\ UNCHANGED namerVars
    /\ UNCHANGED againVars
    /\ UNCHANGED allVars

\* the loop ends: processed >= total, or `if not rows: break`
FinishExtract ==
    /\ pc = "batch"
    /\ \/ processed >= TotalPermits
       \/ SelectBatch(construction_permits, processed, ExtractBatchSize) = <<>>
    /\ pc' = "done"
    /\ UNCHANGED extractVars
    /\ UNCHANGED assignVars
    /\ UNCHANGED storeVars
    /\ UNCHANGED cleanVars
    /\ UNCHANGED kmeansVars
    /\ UNCHANGED aggVars
    /\ UNCHANGED llmVars
    /\ UNCHANGED poolVars
    /\ UNCHANGED entryVars
    /\ UNCHANGED namerVars
    /\ UNCHANGED againVars
    /\ UNCHANGED allVars

\* the process is killed while the requests of a batch are in flight
InterruptExtract ==
    /\ pc = "batch"
    /\ pc' = "start"
    /\ UNCHANGED extractVars
    /\ UNCHANGED assignVars
    /\ UNCHANGED storeVars
    /\ UNCHANGED cleanVars
    /\ UNCHANGED kmeansVars
    /\ UNCHANGED aggVars
    /\ UNCHANGED llmVars
    /\ UNCHANGED poolVars
    /\ UNCHANGED entryVars
    /\ UNCHANGED namerVars
    /\ UNCHANGED againVars
    /\ UNCHANGED allVars

\* the process is killed inside df.to_csv(output_file): the file exists and
\* holds the rows written so far
InterruptToCsv ==
    /\ pc = "batch"
    /\ processed < TotalPermits
    /\ LET selected == SelectBatch(construction_permits, processed, ExtractBatchSize)
       IN /\ selected # <<>>
          /\ \E written \in 0..(Len(selected) - 1) :
                batch_files' = Append(batch_files,
                    [k \in 1..written |-> extract_one(selected[k], <<>>)])
    /\ pc' = "start"
    /\ UNCHANGED <<construction_permits, processed>>
    /\ UNCHANGED assignVars
    /\ UNCHANGED storeVars
    /\ UNCHANGED cleanVars
    /\ UNCHANGED kmeansVars
    /\ UNCHANGED aggVars
    /\ UNCHANGED llmVars
    /\ UNCHANGED poolVars
    /\ UNCHANGED entryVars
    /\ UNCHANGED namerVars
    /\ UNCHANGED againVars
    /\ UNCHANGED allVars

\* a permit with a description is added to the table after a run, and
\* extract_vllm.py is started again
TableGains ==
    /\ pc = "done"
    /\ \E p \in PermitNumbers \ DOMAIN construction_permits :
          construction_permits' =
              [q \in DOMAIN construction_permits \cup {p} |->
                  IF q = p THEN Some("Install EV charger") ELSE construction_permits[q]]
    /\ pc' = "start"
    /\ UNCHANGED <<batch_files, processed>>
    /\ UNCHANGED assignVars
    /\ UNCHANGED storeVars
    /\ UNCHANGED cleanVars
    /\ UNCHANGED kmeansVars
    /\ UNCHANGED aggVars
    /\ UNCHANGED llmVars
    /\ UNCHANGED poolVars
    /\ UNCHANGED entryVars
    /\ UNCHANGED namerVars
    /\ UNCHANGED againVars
    /\ UNCHANGED allVars

\* extract_vllm.py is started again on the same table
ExtractAgain ==
    /\ pc = "done"
    /\ pc' = "start"
    /\ UNCHANGED extractVars
    /\ UNCHANGED assignVars
    /\ UNCHANGED storeVars
    /\ UNCHANGED cleanVars
    /\ UNCHANGED kmeansVars
    /\ UNCHANGED aggVars
    /\ UNCHANGED llmVars
    /\ UNCHANGED poolVars
    /\ UNCHANGED entryVars
    /\ UNCHANGED namerVars
    /\ UNCHANGED againVars
    /\ UNCHANGED allVars

NextExtract ==
    \/ StartExtract
    \/ ExtractBatch
    \/ FinishExtract
    \/ InterruptExtract
    \/ InterruptToCsv
    \/ TableGains
    \/ ExtractAgain

SpecExtract == InitExtract /\ [][NextExtract]_vars

----------------------------------------------------------------------------
(* extract_batch of extract_parallel.py and extract_vllm.py: one extract_one *)
(* task per permit, all created at once, each posting its request inside     *)
(* `async with semaphore`; the results are awaited in completion order.      *)

MaxConcurrent == 2
MaxTasks == 3

\* what a posted request can come to: a reply holding a JSON object, or one
\* of the transient failures (asyncio.TimeoutError after the ClientTimeout, a
\* reply without a JSON object or with one json.loads rejects, an HTTP 429
\* error body without "choices")
TransientFailures == {"timeout", "malformed", "rate_limit"}

Responses ==
    { [kind |-> "json", reply |-> << [permit_number |-> None] >>] }
        \cup { [kind |-> k, reply |-> <<>>] : k \in TransientFailures }

\* the dict extract_one returns for task i: the features of the reply, and
\* EMPTY_RESULT (all None) after `except Exception: pass`
TaskResult(i, response) ==
    [task |-> i,
     row |-> extract_one(tasks[i].permit_num, response.reply),
     features |-> IF response.kind = "json" THEN Some("features") ELSE None]

\* tasks = [extract_one(session, semaphore, p[...], ...) for p in permits]
CreateTasks(permit_list) ==
    [i \in 1..Len(permit_list) |->
        [permit_num |-> permit_list[i], state |-> "created", posts |-> 0,
         response |-> <<>>]]

\* the permits of a batch: distinct permit numbers, or one number on every row
PermitLists ==
    { [i \in 1..n |-> i] : n \in 0..MaxTasks }
        \cup { [i \in 1..n |-> 1] : n \in 2..MaxTasks }

Posted == { i \in DOMAIN tasks : tasks[i].state = "posted" }

Created == { i \in DOMAIN tasks : tasks[i].state = "created" }

InitPool ==
    /\ pc = "pool"
    /\ max_concurrent \in 1..MaxConcurrent
    /\ semaphore = max_concurrent
    /\ \E permit_list \in PermitLists : tasks = CreateTasks(permit_list)
    /\ completed = <<>>
    /\ results = <<>>
    /\ description = None /\ centroids = <<>> /\ result = None
    /\ IdleStore
    /\ IdleClean
    /\ IdleKMeans
    /\ IdleAggregates
    /\ IdleLlm
    /\ IdleExtract
    /\ IdleEntry
    /\ IdleNamer
    /\ IdleAgain
    /\ IdleAll

\* `async with semaphore`, without a test of the semaphore: every created
\* task posts at once
PostUnbounded ==
    /\ pc = "pool"
    /\ Created # {}
    /\ LET i == CHOOSE k \in Created : \A j \in Created : k <= j
       IN  tasks' = [tasks EXCEPT ![i].state = "posted", ![i].posts = @ + 1]
    /\ semaphore' = semaphore - 1
    /\ UNCHANGED <<pc, completed, results, max_concurrent>>
    /\ UNCHANGED assignVars
    /\ UNCHANGED storeVars
    /\ UNCHANGED cleanVars
    /\ UNCHANGED kmeansVars
    /\ UNCHANGED aggVars
    /\ UNCHANGED llmVars
    /\ UNCHANGED extractVars
    /\ UNCHANGED entryVars
    /\ UNCHANGED namerVars
    /\ UNCHANGED againVars
    /\ UNCHANGED allVars

\* `async with semaphore:` then session.post(...): the tasks reach the
\* semaphore in creation order and asyncio wakes its waiters first in, first
\* out, so the earliest created task still waiting acquires it
AcquireAndPost ==
    /\ semaphore > 0
    /\ PostUnbounded

\* the request of task i ends: extract_one returns its dict, leaving the
\* `async with semaphore` block releases the semaphore
Respond(i, response) ==
    /\ pc = "pool"
    /\ i \in Posted
    /\ tasks' = [tasks EXCEPT ![i].state = "returned", ![i].response = <<response.kind>>]
    /\ semaphore' = semaphore + 1
    /\ completed' = Append(completed, TaskResult(i, response))
    /\ UNCHANGED <<pc, results, max_concurrent>>
    /\ UNCHANGED assignVars
    /\ UNCHANGED storeVars
    /\ UNCHANGED cleanVars
    /\ UNCHANGED kmeansVars
    /\ UNCHANGED aggVars
    /\ UNCHANGED llmVars
    /\ UNCHANGED extractVars
    /\ UNCHANGED entryVars
    /\ UNCHANGED namerVars
    /\ UNCHANGED againVars
    /\ UNCHANGED allVars

RequestEnds == \E i \in DOMAIN tasks : \E response \in Responses : Respond(i, response)

\* for coro in asyncio.as_completed(tasks): results.append(await coro)
AwaitNext ==
    /\ pc = "pool"
    /\ completed # <<>>
    /\ results' = Append(results, Head(completed))
    /\ completed' = Tail(completed)
    /\ UNCHANGED <<pc, tasks, semaphore, max_concurrent>>
    /\ UNCHANGED assignVars
    /\ UNCHANGED storeVars
    /\ UNCHANGED cleanVars
    /\ UNCHANGED kmeansVars
    /\ UNCHANGED aggVars
    /\ UNCHANGED llmVars
    /\ UNCHANGED extractVars
    /\ UNCHANGED entryVars
    /\ UNCHANGED namerVars
    /\ UNCHANGED againVars
    /\ UNCHANGED allVars

\* return results, once as_completed has yielded every task
ReturnResults ==
    /\ pc = "pool"
    /\ Len(results) = Len(tasks)
    /\ pc' = "returned"
    /\ UNCHANGED poolVars
    /\ UNCHANGED assignVars
    /\ UNCHANGED storeVars
    /\ UNCHANGED cleanVars
    /\ UNCHANGED kmeansVars
    /\ UNCHANGED aggVars
    /\ UNCHANGED llmVars
    /\ UNCHANGED extractVars
    /\ UNCHANGED entryVars
    /\ UNCHANGED namerVars
    /\ UNCHANGED againVars
    /\ UNCHANGED allVars

NextPool ==
    \/ AcquireAndPost
    \/ RequestEnds
    \/ AwaitNext
    \/ ReturnResults

SpecPool == InitPool /\ [][NextPool]_vars

\* the event loop runs every task that can run, and every request ends: with
\* a reply, or with asyncio.TimeoutError when its ClientTimeout expires
SpecPoolFair ==
    /\ SpecPool
    /\ WF_vars(AcquireAndPost)
    /\ WF_vars(RequestEnds)
    /\ WF_vars(AwaitNext)
    /\ WF_vars(ReturnResults)

----------------------------------------------------------------------------
(* The entry points and their input file: incremental_update.main, the     *)
(* pipeline's main, UnifiedDataLoader.load_csv and ingest_supabase.main,   *)
(* each as the sequence of steps its code takes.                           *)

MaxRecords == 2

EntryPoints ==
    { [name |-> "incremental_update.main", aggregates_only |-> FALSE],
      [name |-> "pipeline.main", aggregates_only |-> FALSE],
      [name |-> "load_csv", aggregates_only |-> FALSE],
      [name |-> "ingest_supabase.main", aggregates_only |-> FALSE],
      [name |-> "ingest_supabase.main", aggregates_only |-> TRUE] }

\* the paths an entry point looks for, in the order it tries them:
\* CSV_PATH, DATA_PATH, the path argument, and the pipeline output with its
\* .gz fallback; ingest_supabase --aggregates-only reads no file
InputPaths(e) ==
    IF e.name = "ingest_supabase.main"
    THEN IF e.aggregates_only THEN <<>>
         ELSE <<"permit_data_named_clusters.csv", "permit_data_named_clusters.csv.gz">>
    ELSE IF e.name = "incremental_update.main" THEN <<"CSV_PATH">>
    ELSE IF e.name = "pipeline.main" THEN <<"DATA_PATH">>
    ELSE <<"path">>

\* the steps of each entry point in program order
Steps(e) ==
    IF e.name = "incremental_update.main"
    THEN <<"exists", "connect", "select", "read", "insert", "aggregate", "return">>
    ELSE IF e.name = "pipeline.main"
    THEN <<"exists", "read", "to_csv", "to_csv", "return">>
    ELSE IF e.name = "load_csv"
    THEN <<"exists", "read", "return">>
    ELSE IF e.aggregates_only
    THEN <<"connect", "aggregate", "return">>
    ELSE <<"connect", "exists", "read", "insert", "aggregate", "return">>

\* every path passes the test
exists_always(path) == TRUE

\* CSV_PATH.exists(), os.path.exists(path)
exists(path) == path \in DOMAIN input_files

\* the first of the paths that exists, None when none does
FirstExisting(paths) ==
    IF \E k \in DOMAIN paths : exists(paths[k])
    THEN Some(paths[CHOOSE k \in DOMAIN paths :
                  exists(paths[k]) /\ \A j \in 1..(k - 1) : ~exists(paths[j])])
    ELSE None

\* the path the test accepted, which the reading step opens
SelectedPath == FirstExisting(InputPaths(entry_point))

StepIs(kind) ==
    pc = "running" /\ step <= Len(Steps(entry_point)) /\ Steps(entry_point)[step] = kind

InputFiles(e) ==
    UNION { [S -> 0..MaxRecords] :
              S \in SUBSET { InputPaths(e)[k] : k \in DOMAIN InputPaths(e) } }

InitEntry ==
    /\ pc = "running"
    /\ entry_point \in EntryPoints
    /\ input_files \in InputFiles(entry_point)
    /\ step = 1
    /\ records_processed = 0
    /\ effects = {}
    /\ description = None /\ centroids = <<>> /\ result = None
    /\ IdleStore
    /\ IdleClean
    /\ IdleKMeans
    /\ IdleAggregates
    /\ IdleLlm
    /\ IdleExtract
    /\ IdlePool
    /\ IdleNamer
    /\ IdleAgain
    /\ IdleAll

\* if not CSV_PATH.exists(): sys.exit(1); if not os.path.exists(DATA_PATH):
\* return 1; raise FileNotFoundError; ingest_permits returns False and main
\* calls sys.exit(1)
CheckExists ==
    /\ StepIs("exists")
    /\ IF SelectedPath # None
       THEN pc' = pc /\ step' = step + 1
       ELSE pc' = "failed" /\ step' = step
    /\ UNCHANGED <<entry_point, input_files, records_processed, effects>>
    /\ UNCHANGED assignVars
    /\ UNCHANGED storeVars
    /\ UNCHANGED cleanVars
    /\ UNCHANGED kmeansVars
    /\ UNCHANGED aggVars
    /\ UNCHANGED llmVars
    /\ UNCHANGED extractVars
    /\ UNCHANGED poolVars
    /\ UNCHANGED namerVars
    /\ UNCHANGED againVars
    /\ UNCHANGED allVars

\* conn = psycopg2.connect(DB_URL)
Connect ==
    /\ StepIs("connect")
    /\ step' = step + 1
    /\ effects' = effects \cup {"connect"}
    /\ UNCHANGED <<pc, entry_point, input_files, records_processed>>
    /\ UNCHANGED assignVars
    /\ UNCHANGED storeVars
    /\ UNCHANGED cleanVars
    /\ UNCHANGED kmeansVars
    /\ UNCHANGED aggVars
    /\ UNCHANGED llmVars
    /\ UNCHANGED extractVars
    /\ UNCHANGED poolVars
    /\ UNCHANGED namerVars
    /\ UNCHANGED againVars
    /\ UNCHANGED allVars

\* existing = get_existing_permit_numbers(conn)
SelectExisting ==
    /\ StepIs("select")
    /\ step' = step + 1
    /\ effects' = effects \cup {"select"}
    /\ UNCHANGED <<pc, entry_point, input_files, records_processed>>
    /\ UNCHANGED assignVars
    /\ UNCHANGED storeVars
    /\ UNCHANGED cleanVars
    /\ UNCHANGED kmeansVars
    /\ UNCHANGED aggVars
    /\ UNCHANGED llmVars
    /\ UNCHANGED extractVars
    /\ UNCHANGED poolVars
    /\ UNCHANGED namerVars
    /\ UNCHANGED againVars
    /\ UNCHANGED allVars

\* open(CSV_PATH), read_csv(path): one record of the file is read; opening
\* a file that does not exist raises FileNotFoundError
ReadRecord ==
    /\ StepIs("read")
    /\ IF SelectedPath = None \/ SelectedPath[1] \notin DOMAIN input_files
       THEN pc' = "failed" /\ step' = step /\ records_processed' = records_processed
       ELSE /\ pc' = pc
            /\ IF records_processed < input_files[SelectedPath[1]]
               THEN step' = step /\ records_processed' = records_processed + 1
               ELSE step' = step + 1 /\ records_processed' = records_processed
    /\ UNCHANGED <<entry_point, input_files, effects>>
    /\ UNCHANGED assignVars
    /\ UNCHANGED storeVars
    /\ UNCHANGED cleanVars
    /\ UNCHANGED kmeansVars
    /\ UNCHANGED aggVars
    /\ UNCHANGED llmVars
    /\ UNCHANGED extractVars
    /\ UNCHANGED poolVars
    /\ UNCHANGED namerVars
    /\ UNCHANGED againVars
    /\ UNCHANGED allVars

\* insert_new_permits(conn, new_rows) when there are new rows; ingest_permits:
\* _insert_batch for the batch that is left, conn.commit()
InsertPermits ==
    /\ StepIs("insert")
    /\ step' = step + 1
    /\ effects' = IF records_processed > 0 THEN effects \cup {"insert"} ELSE effects
    /\ UNCHANGED <<pc, entry_point, input_files, records_processed>>
    /\ UNCHANGED assignVars
    /\ UNCHANGED storeVars
    /\ UNCHANGED cleanVars
    /\ UNCHANGED kmeansVars
    /\ UNCHANGED aggVars
    /\ UNCHANGED llmVars
    /\ UNCHANGED extractVars
    /\ UNCHANGED poolVars
    /\ UNCHANGED namerVars
    /\ UNCHANGED againVars
    /\ UNCHANGED allVars

\* update_aggregates(conn)
Aggregate ==
    /\ StepIs("aggregate")
    /\ step' = step + 1
    /\ effects' = effects \cup {"aggregate"}
    /\ UNCHANGED <<pc, entry_point, input_files, records_processed>>
    /\ UNCHANGED assignVars
    /\ UNCHANGED storeVars
    /\ UNCHANGED cleanVars
    /\ UNCHANGED kmeansVars
    /\ UNCHANGED aggVars
    /\ UNCHANGED llmVars
    /\ UNCHANGED extractVars
    /\ UNCHANGED poolVars
    /\ UNCHANGED namerVars
    /\ UNCHANGED againVars
    /\ UNCHANGED allVars

\* nlp_enriched_df.to_csv(OUTPUT_ENRICHED), save_results(df, OUTPUT_SUMMARY)
ToCsv ==
    /\ StepIs("to_csv")
    /\ step' = step + 1
    /\ effects' = effects \cup {"to_csv"}
    /\ UNCHANGED <<pc, entry_point, input_files, records_processed>>
    /\ UNCHANGED assignVars
    /\ UNCHANGED storeVars
    /\ UNCHANGED cleanVars
    /\ UNCHANGED kmeansVars
    /\ UNCHANGED aggVars
    /\ UNCHANGED llmVars
    /\ UNCHANGED extractVars
    /\ UNCHANGED poolVars
    /\ UNCHANGED namerVars
    /\ UNCHANGED againVars
    /\ UNCHANGED allVars

ReturnEntry ==
    /\ StepIs("return")
    /\ pc' = "returned"
    /\ UNCHANGED entryVars
    /\ UNCHANGED assignVars
    /\ UNCHANGED storeVars
    /\ UNCHANGED cleanVars
    /\ UNCHANGED kmeansVars
    /\ UNCHANGED aggVars
    /\ UNCHANGED llmVars
    /\ UNCHANGED extractVars
    /\ UNCHANGED poolVars
    /\ UNCHANGED namerVars
    /\ UNCHANGED againVars
    /\ UNCHANGED allVars

NextEntry ==
    \/ CheckExists
    \/ Connect
    \/ SelectExisting
    \/ ReadRecord
    \/ InsertPermits
    \/ Aggregate
    \/ ToCsv
    \/ ReturnEntry

SpecEntry == InitEntry /\ [][NextEntry]_vars

----------------------------------------------------------------------------
(* name_clusters.py: analyze_cluster_characteristics and                   *)
(* generate_cluster_name, on a cluster given by its number of rows and the *)
(* sum of each f_description_kw_ column over its rows.                     *)

ClusterRows == 20
MaxPositive == 4

UpperOf ==
    [c \in { CharAt(LowerChars, i) : i \in 1..Len(LowerChars) } |->
        CharAt(UpperChars, CHOOSE i \in 1..Len(LowerChars) : CharAt(LowerChars, i) = c)]

RECURSIVE TitleFrom(_, _, _)
TitleFrom(s, i, after_letter) ==
    IF i > Len(s) THEN ""
    ELSE LET c == CharAt(s, i)
             letter == c \in DOMAIN UpperOf \/ c \in DOMAIN LowerOf
         IN (IF ~letter THEN c
             ELSE IF after_letter THEN LowerChar(c)
             ELSE IF c \in DOMAIN UpperOf THEN UpperOf[c] ELSE c)
            \o TitleFrom(s, i + 1, letter)

\* str.title(): the first letter of every run of letters in upper case, the
\* other letters in lower case
title(s) == TitleFrom(s, 1, FALSE)

TitleOfKeyword == [i \in DOMAIN NLP_KEYWORDS |-> title(NLP_KEYWORDS[i])]

KeywordIndex(kw) == CHOOSE i \in DOMAIN NLP_KEYWORDS : NLP_KEYWORDS[i] = kw

\* top_keywords[0].title()
TitleTop(kw) == TitleOfKeyword[KeywordIndex(kw)]

\* score = (cluster_data[col].sum() / len(cluster_data)) * 100, kept as the
\* pair it is computed from; for the sizes and sums drawn here the double
\* the code computes compares with the thresholds as the exact quotient does
ScoreExceeds(score, threshold) == score.sum * 100 > threshold * score.len

ScoreGreater(a, b) == a.sum * b.len > b.sum * a.len

\* keyword_scores: the keywords whose score is > 0, in column order
KeywordScores(c) ==
    LET columns == SetToSeq({ i \in DOMAIN NLP_KEYWORDS : c.sums[i] > 0 })
    IN  [k \in 1..Len(columns) |->
            [kw |-> NLP_KEYWORDS[columns[k]],
             score |-> [sum |-> c.sums[columns[k]], len |-> c.size]]]

RECURSIVE SortedByScore(_)
\* sorted(items, key=lambda x: x[1], reverse=True): stable, equal scores keep
\* their order
SortedByScore(items) ==
    IF items = <<>> THEN <<>>
    ELSE LET m == CHOOSE k \in DOMAIN items :
                      /\ \A j \in DOMAIN items : ~ScoreGreater(items[j].score, items[k].score)
                      /\ \A j \in 1..(k - 1) : ScoreGreater(items[k].score, items[j].score)
         IN <<items[m]>> \o SortedByScore(SubSeq(items, 1, m - 1) \o SubSeq(items, m + 1, Len(items)))

\* analyze_cluster_characteristics(df, cluster_id)['top_keywords']
analyze_cluster_characteristics(c) ==
    LET sorted == SortedByScore(KeywordScores(c))
    IN  [top_keywords |-> SubSeq(sorted, 1, IF Len(sorted) < 3 THEN Len(sorted) ELSE 3)]

InTop(top_keywords, kw) == \E k \in DOMAIN top_keywords : top_keywords[k].kw = kw

\* the rule with >= in place of >
RuleAtLeast(top_keywords, kw, threshold) ==
    \E k \in DOMAIN top_keywords :
        /\ top_keywords[k].kw = kw
        /\ top_keywords[k].score.sum * 100 >= threshold * top_keywords[k].score.len

\* 'kw' in top_keywords and scores.get('kw', 0) > threshold
Rule(top_keywords, kw, threshold) ==
    \E k \in DOMAIN top_keywords :
        top_keywords[k].kw = kw /\ ScoreExceeds(top_keywords[k].score, threshold)

\* generate_cluster_name(characteristics)
generate_cluster_name(characteristics) ==
    LET top == characteristics.top_keywords
    IN  IF Rule(top, "demolition", 35) THEN "Demolition Projects"
        ELSE IF Rule(top, "foundation", 80)
        THEN IF InTop(top, "repair") THEN "Foundation Repairs" ELSE "Foundation Work"
        ELSE IF Rule(top, "window", 50) THEN "Window Installations & Multi-Trade Remodels"
        ELSE IF Rule(top, "remodel", 40)
        THEN IF InTop(top, "commercial") THEN "Commercial Renovations"
             ELSE "Major Residential Remodels"
        ELSE IF Rule(top, "new", 80)
        THEN IF InTop(top, "residential") \/ InTop(top, "single-family")
             THEN "New Residential Construction" ELSE "New Construction"
        ELSE IF Rule(top, "hvac", 5) THEN "HVAC Installations"
        ELSE IF Rule(top, "electrical", 7)
        THEN IF InTop(top, "roof") THEN "Electrical & Roofing Work"
             ELSE "Electrical Installations"
        ELSE IF Rule(top, "new", 20)
        THEN IF InTop(top, "plumbing") THEN "General Construction & Plumbing"
             ELSE IF InTop(top, "repair") THEN "General Construction & Repairs"
             ELSE "General New Construction"
        ELSE IF top # <<>> THEN TitleTop(top[1].kw) \o " Work" ELSE "Miscellaneous"

\* the keywords the drawn clusters contain: those of the rules, and one
\* that no rule names
DrawnKeywords ==
    { KeywordIndex(kw) : kw \in {"demolition", "foundation", "window", "remodel", "new",
                                 "hvac", "electrical", "multi-family"} }

\* sums of a keyword column that put its score on either side of the
\* thresholds: 5, 10, 40 and 85 per cent of ClusterRows rows
DrawnSums == {1, 2, 8, 17}

\* the keyword sets with a positive sum in a drawn cluster
PositiveSets == { T \in SUBSET DrawnKeywords : Cardinality(T) <= MaxPositive }

InitNamer ==
    /\ pc = "cluster"
    /\ \E S \in PositiveSets : \E f \in [S -> DrawnSums] :
           cluster = [size |-> ClusterRows,
                      sums |-> [i \in DOMAIN NLP_KEYWORDS |-> IF i \in S THEN f[i] ELSE 0]]
    /\ cluster_name = None
    /\ description = None /\ centroids = <<>> /\ result = None
    /\ IdleStore
    /\ IdleClean
    /\ IdleKMeans
    /\ IdleAggregates
    /\ IdleLlm
    /\ IdleExtract
    /\ IdlePool
    /\ IdleEntry
    /\ IdleAgain
    /\ IdleAll

\* create_cluster_mapping: name = generate_cluster_name(characteristics)
CreateClusterMapping ==
    /\ pc = "cluster"
    /\ cluster_name' = Some(generate_cluster_name(analyze_cluster_characteristics(cluster)))
    /\ pc' = "named"
    /\ UNCHANGED cluster
    /\ UNCHANGED assignVars
    /\ UNCHANGED storeVars
    /\ UNCHANGED cleanVars
    /\ UNCHANGED kmeansVars
    /\ UNCHANGED aggVars
    /\ UNCHANGED llmVars
    /\ UNCHANGED extractVars
    /\ UNCHANGED poolVars
    /\ UNCHANGED entryVars
    /\ UNCHANGED againVars
    /\ UNCHANGED allVars

NextNamer == CreateClusterMapping

SpecNamer == InitNamer /\ [][NextNamer]_vars

----------------------------------------------------------------------------
(* A second run of a normalizer on the table object the first run received *)

\* the csv files of the model, and those with the spaced header
InitReclean ==
    /\ pc = "csv"
    /\ \E names \in {TitleHeader, SnakeHeader, SpacedHeader} : \E rs \in RowLists :
           csv = [columns |-> names, rows |-> rs]
    /\ frame = <<>> /\ cleaned = <<>> /\ prepared = <<>>
    /\ description = None /\ centroids = <<>> /\ result = None
    /\ IdleStore
    /\ IdleKMeans
    /\ IdleAggregates
    /\ IdleLlm
    /\ IdleExtract
    /\ IdlePool
    /\ IdleEntry
    /\ IdleNamer
    /\ IdleAgain
    /\ IdleAll

\* clean_df = clean_permit_data(df), once more with the same df
CleanPermitDataAgain ==
    /\ pc = "cleaned"
    /\ cleaned.by = "clean_permit_data"
    /\ LET out == clean_permit_data(frame)
       IN /\ frame' = out.frame
          /\ cleaned_again' = [by |-> "clean_permit_data", raised |-> out.raised, df |-> out.df]
    /\ pc' = "cleaned_again"
    /\ UNCHANGED <<csv, cleaned, prepared>>
    /\ UNCHANGED assignVars
    /\ UNCHANGED storeVars
    /\ UNCHANGED kmeansVars
    /\ UNCHANGED aggVars
    /\ UNCHANGED llmVars
    /\ UNCHANGED extractVars
    /\ UNCHANGED poolVars
    /\ UNCHANGED entryVars
    /\ UNCHANGED namerVars
    /\ UNCHANGED allVars

\* UnifiedDataCleaner().clean(df), once more with the same df
UnifiedCleanAgain ==
    /\ pc = "cleaned"
    /\ cleaned.by = "UnifiedDataCleaner"
    /\ LET out == UnifiedDataCleaner_clean(frame)
       IN /\ frame' = out.frame
          /\ cleaned_again' = [by |-> "UnifiedDataCleaner", raised |-> out.raised, df |-> out.df]
    /\ pc' = "cleaned_again"
    /\ UNCHANGED <<csv, cleaned, prepared>>
    /\ UNCHANGED assignVars
    /\ UNCHANGED storeVars
    /\ UNCHANGED kmeansVars
    /\ UNCHANGED aggVars
    /\ UNCHANGED llmVars
    /\ UNCHANGED extractVars
    /\ UNCHANGED poolVars
    /\ UNCHANGED entryVars
    /\ UNCHANGED namerVars
    /\ UNCHANGED allVars

NextReclean ==
    \/ load_csv
    \/ CleanPermitData
    \/ UnifiedClean
    \/ CleanPermitDataAgain
    \/ UnifiedCleanAgain

SpecReclean == InitReclean /\ [][NextReclean]_vars

----------------------------------------------------------------------------
(* Specification SpecCategorizeAll: main() of llm_categorize_all.py run    *)
(* with --resume on the sqlite permits table, paused with Ctrl+C or killed *)
(* at any row and started again.  query_ollama returns a dict or None.     *)

\* BATCH_SIZE, scaled down
AllBatchSize == 2

\* the descriptions of the permits table: none, one of at most 10
\* characters, one of more than 10
AllDescriptions == { None, Some("Reroof"), Some("Reroof the house") }

\* what query_ollama returns: None on any exception, else the parsed dict,
\* of which the model keeps the trade
OllamaReplies == { None, Some("roofing") }

\* load_progress(), on a file that holds a dict or does not exist
load_progress_all(file) ==
    IF file = None
    THEN [processed_ids |-> <<>>, last_id |-> 0, categories |-> <<>>]
    ELSE file[1]

\* work_description IS NOT NULL AND length(work_description) > 10
LongDescription(store, p) ==
    /\ store[p].work_description # None
    /\ Len(store[p].work_description[1]) > 10

\* SELECT id, work_description FROM permits WHERE ... AND id > ? ORDER BY id
SelectLongAfter(store, last_id) ==
    SetToSeq({ p \in DOMAIN store : p > last_id /\ LongDescription(store, p) })

\* SELECT COUNT(*) FROM permits WHERE ...
CountLong(store) == Cardinality({ p \in DOMAIN store : LongDescription(store, p) })

\* processed_set
processed_set == { prog.processed_ids[k] : k \in 1..Len(prog.processed_ids) }

\* the condition of the save inside the loop:
\* if len(batch_categories) >= BATCH_SIZE
BatchFull(batch) == Len(batch) >= AllBatchSize

InitCategorizeAll ==
    /\ pc = "all_start"
    /\ script = "llm_categorize_all"
    /\ permits \in [PermitIds -> [work_description : AllDescriptions, llm_trade : { None }]]
    /\ committed = permits
    /\ prog = <<>>
    /\ progress_file = None
    /\ committed_upto = 0
    /\ request = <<>>
    /\ batch_categories = <<>>
    /\ rows = <<>> /\ updates = <<>> /\ total = 0 /\ again = <<>>
    /\ description = None /\ centroids = <<>> /\ result = None
    /\ IdleClean
    /\ IdleKMeans
    /\ IdleAggregates
    /\ IdleExtract
    /\ IdlePool
    /\ IdleEntry
    /\ IdleNamer
    /\ IdleAgain

\* main() up to the loop: the progress, the count, the cursor, and the
\* return when every permit was processed
StartAll ==
    /\ pc = "all_start"
    /\ prog' = load_progress_all(progress_file)
    /\ total' = CountLong(permits)
    /\ rows' = SelectLongAfter(permits, prog'.last_id)
    /\ batch_categories' = <<>>
    /\ pc' = IF Len(prog'.processed_ids) >= total' THEN "done" ELSE "all_loop"
    /\ UNCHANGED <<permits, committed, updates, again>>
    /\ UNCHANGED <<script, progress_file, committed_upto, request>>
    /\ UNCHANGED assignVars
    /\ UNCHANGED cleanVars
    /\ UNCHANGED kmeansVars
    /\ UNCHANGED aggVars
    /\ UNCHANGED extractVars
    /\ UNCHANGED poolVars
    /\ UNCHANGED entryVars
    /\ UNCHANGED namerVars
    /\ UNCHANGED againVars

\* one pass of `for row in cursor`: the query, the progress dict, and the
\* save of the batch when it is full
CategorizeRow ==
    /\ pc = "all_loop"
    /\ rows # <<>>
    /\ rows' = Tail(rows)
    /\ LET permit_id == Head(rows)
       IN IF permit_id \in processed_set
          THEN UNCHANGED <<permits, committed, prog, progress_file, batch_categories>>
          ELSE \E categories \in OllamaReplies :
                  LET pair == [id |-> permit_id, trade |-> categories[1]]
                      batch == IF categories # None
                               THEN Append(batch_categories, pair)
                               ELSE batch_categories
                      progress ==
                          [processed_ids |-> Append(prog.processed_ids, permit_id),
                           last_id |-> permit_id,
                           categories |-> IF categories # None
                                          THEN Append(prog.categories, pair)
                                          ELSE prog.categories]
                  IN /\ prog' = progress
                     /\ IF BatchFull(batch)
                        THEN /\ permits' = SetTrades(permits, batch)
                             /\ committed' = permits'
                             /\ progress_file' = Some(progress)
                             /\ batch_categories' = <<>>
                        ELSE /\ batch_categories' = batch
                             /\ UNCHANGED <<permits, committed, progress_file>>
    /\ UNCHANGED <<pc, updates, total, again>>
    /\ UNCHANGED <<script, committed_upto, request>>
    /\ UNCHANGED assignVars
    /\ UNCHANGED cleanVars
    /\ UNCHANGED kmeansVars
    /\ UNCHANGED aggVars
    /\ UNCHANGED extractVars
    /\ UNCHANGED poolVars
    /\ UNCHANGED entryVars
    /\ UNCHANGED namerVars
    /\ UNCHANGED againVars

\* if batch_categories: update_database(conn, batch_categories) and, where
\* the code has it under the same condition, save_progress(progress)
SaveBatch(always_progress) ==
    /\ IF batch_categories # <<>>
       THEN /\ permits' = SetTrades(permits, batch_categories)
            /\ committed' = permits'
       ELSE UNCHANGED <<permits, committed>>
    /\ IF batch_categories # <<>> \/ always_progress
       THEN progress_file' = Some(prog)
       ELSE UNCHANGED progress_file

\* the final save, after the loop
FinalSave ==
    /\ pc = "all_loop"
    /\ rows = <<>>
    /\ SaveBatch(FALSE)
    /\ pc' = "done"
    /\ UNCHANGED <<rows, updates, total, again>>
    /\ UNCHANGED <<script, prog, committed_upto, request, batch_categories>>
    /\ UNCHANGED assignVars
    /\ UNCHANGED cleanVars
    /\ UNCHANGED kmeansVars
    /\ UNCHANGED aggVars
    /\ UNCHANGED extractVars
    /\ UNCHANGED poolVars
    /\ UNCHANGED entryVars
    /\ UNCHANGED namerVars
    /\ UNCHANGED againVars

\* except KeyboardInterrupt: Ctrl+C saves what is in memory; the script is
\* then started again with --resume
Pause ==
    /\ pc = "all_loop"
    /\ SaveBatch(TRUE)
    /\ pc' = "all_start"
    /\ prog' = <<>>
    /\ rows' = <<>>
    /\ batch_categories' = <<>>
    /\ UNCHANGED <<updates, total, again>>
    /\ UNCHANGED <<script, committed_upto, request>>
    /\ UNCHANGED assignVars
    /\ UNCHANGED cleanVars
    /\ UNCHANGED kmeansVars
    /\ UNCHANGED aggVars
    /\ UNCHANGED extractVars
    /\ UNCHANGED poolVars
    /\ UNCHANGED entryVars
    /\ UNCHANGED namerVars
    /\ UNCHANGED againVars

\* an abrupt stop (the process is killed, the machine loses power): what was
\* in memory is gone; the script is then started again with --resume
Kill ==
    /\ pc = "all_loop"
    /\ permits' = committed
    /\ prog' = <<>>
    /\ rows' = <<>>
    /\ batch_categories' = <<>>
    /\ pc' = "all_start"
    /\ UNCHANGED <<committed, updates, total, again>>
    /\ UNCHANGED <<script, progress_file, committed_upto, request>>
    /\ UNCHANGED assignVars
    /\ UNCHANGED cleanVars
    /\ UNCHANGED kmeansVars
    /\ UNCHANGED aggVars
    /\ UNCHANGED extractVars
    /\ UNCHANGED poolVars
    /\ UNCHANGED entryVars
    /\ UNCHANGED namerVars
    /\ UNCHANGED againVars

NextCategorizeAll ==
    \/ StartAll
    \/ CategorizeRow
    \/ FinalSave
    \/ Pause
    \/ Kill

SpecCategorizeAll == InitCategorizeAll /\ [][NextCategorizeAll]_vars

----------------------------------------------------------------------------
(* Specification SpecBackend: find_best_cluster of the compute backends    *)
(* (backends/cpu.py, cupy_backend.py, torch_backend.py, cuda_backend.py)   *)
(* on one feature row and a dict of centroids, next to                     *)
(* assign_nearest_cluster on the same arguments.                           *)

\* BACKENDS
BACKENDS == { "cpu", "cupy", "torch", "cuda" }

\* one entry of the similarity matrix, kept as CosineSim keeps it.  cpu and
\* cuda divide the dot product by norm_feat * norm_cent + 1e-8, cupy divides
\* each vector by its norm + 1e-8, torch by max(norm, 1e-12): with a zero row
\* or a zero centroid the dot product is 0 and the quotient is exactly 0; the
\* epsilon otherwise changes the quotient in its last digits only
batch_cosine_similarity(backend, feat, centroid) ==
    IF NormSq(feat) = 0 \/ NormSq(centroid.sum) = 0
    THEN [num |-> 0, den |-> 1]
    ELSE CosineSim(feat, centroid)

RECURSIVE argmax(_, _, _)
\* argmax of one row of the similarity matrix from column i on: the first
\* column that holds the greatest value; best is the column held so far
argmax(sims, i, best) ==
    IF i > Len(sims) THEN best
    ELSE argmax(sims, i + 1, IF SimGreater(sims[i], sims[best]) THEN i ELSE best)

\* find_best_cluster(features, centroids) for a features array of one row:
\* the key of the argmax column; stacking no column raises
find_best_cluster(backend, feat, cents) ==
    IF cents = <<>> THEN << "raised", "ValueError" >>
    ELSE LET cluster_ids == [k \in 1..Len(cents) |-> cents[k].cid]
             sim_matrix == [k \in 1..Len(cents) |->
                               batch_cosine_similarity(backend, feat, cents[k].centroid)]
         IN << "cluster", cluster_ids[argmax(sim_matrix, 1, 1)] >>

InitBackend ==
    /\ pc = "backend_call"
    /\ description \in CallDescriptions
    /\ centroids \in CentroidMaps
    /\ result = None
    /\ IdleStore
    /\ IdleClean
    /\ IdleKMeans
    /\ IdleAggregates
    /\ IdleLlm
    /\ IdleExtract
    /\ IdlePool
    /\ IdleEntry
    /\ IdleNamer
    /\ IdleAgain
    /\ IdleAll

\* backend = get_backend(name); backend.find_best_cluster(features, centroids)
\* and assign_nearest_cluster(features[0], centroids) on the same arguments
FindBestCluster(backend) ==
    /\ pc = "backend_call"
    /\ result' = Some([backend |-> backend,
                       best |-> find_best_cluster(backend, Features(description), centroids),
                       assigned |-> AssignRun(Features(description), centroids).best_cluster])
    /\ pc' = "backend_returned"
    /\ UNCHANGED <<description, centroids>>
    /\ UNCHANGED storeVars
    /\ UNCHANGED cleanVars
    /\ UNCHANGED kmeansVars
    /\ UNCHANGED aggVars
    /\ UNCHANGED llmVars
    /\ UNCHANGED extractVars
    /\ UNCHANGED poolVars
    /\ UNCHANGED entryVars
    /\ UNCHANGED namerVars
    /\ UNCHANGED againVars
    /\ UNCHANGED allVars

NextBackend == \E backend \in BACKENDS : FindBestCluster(backend)

SpecBackend == InitBackend /\ [][NextBackend]_vars

----------------------------------------------------------------------------
(* Specification SpecRecluster: a clusterer run on a feature table and     *)
(* then run again on the table the first run returned, which carries the   *)
(* f_cluster column the first run wrote.                                   *)

\* the feature columns the clusterer selects from a table
SelectedFeatureCols(impl, df) ==
    IF impl = "run_cuml_clustering"
    THEN feature_cols_kmeans(df, "f_")
    ELSE feature_cols_unified(df, "f_")

\* the first run returned a table with the labels
Labelled ==
    /\ Len(fits) = 1
    /\ fits[1].raised = None
    /\ HasColumn(fits[1].df, "f_cluster")

\* df = run_cuml_clustering(df) on the table run_cuml_clustering returned
RunCumlClusteringAgain ==
    /\ clusterer.impl = "run_cuml_clustering"
    /\ Labelled
    /\ \E entropy \in Seeds :
          fits' = Append(fits, run_cuml_clustering(fits[1].df, clusterer, entropy))
    /\ pc' = "reclustered"
    /\ UNCHANGED <<frame, clusterer>>
    /\ UNCHANGED <<csv, cleaned, prepared>>
    /\ UNCHANGED assignVars
    /\ UNCHANGED storeVars
    /\ UNCHANGED aggVars
    /\ UNCHANGED llmVars
    /\ UNCHANGED extractVars
    /\ UNCHANGED poolVars
    /\ UNCHANGED entryVars
    /\ UNCHANGED namerVars
    /\ UNCHANGED againVars
    /\ UNCHANGED allVars

\* clusterer.add_clusters_to_df(df) on the table add_clusters_to_df returned
AddClustersToDfAgain ==
    /\ clusterer.impl = "UnifiedClustering"
    /\ Labelled
    /\ fits' = Append(fits, add_clusters_to_df(fits[1].df, clusterer))
    /\ pc' = "reclustered"
    /\ UNCHANGED <<frame, clusterer>>
    /\ UNCHANGED <<csv, cleaned, prepared>>
    /\ UNCHANGED assignVars
    /\ UNCHANGED storeVars
    /\ UNCHANGED aggVars
    /\ UNCHANGED llmVars
    /\ UNCHANGED extractVars
    /\ UNCHANGED poolVars
    /\ UNCHANGED entryVars
    /\ UNCHANGED namerVars
    /\ UNCHANGED againVars
    /\ UNCHANGED allVars

\* the first run
FirstRun == Len(fits) = 0 /\ (RunCumlClustering \/ AddClustersToDf)

NextRecluster ==
    \/ FirstRun
    \/ RunCumlClusteringAgain
    \/ AddClustersToDfAgain

SpecRecluster == InitKMeans /\ [][NextRecluster]_vars

----------------------------------------------------------------------------
(* Claims about the incremental assigner                                   *)

\* the returned state of the call under check
Returned == result[1]
FeatIn == Features(description)

\* fraction a is greater than fraction b (denominators positive)
FracGreater(a, b) == a.num * b.den > b.num * a.den

\* the items of the map whose centroid has a non-zero norm
NonZeroItems == { k \in 1..Len(centroids) : NormSq(centroids[k].centroid.sum) # 0 }

\* the similarity of the k-th item of the map to the vector under check
SimTo(k) == CosineSim(FeatIn, centroids[k].centroid)

\* item k has a non-zero norm and no such item has a greater similarity
IsMaximal(k) ==
    /\ k \in NonZeroItems
    /\ \A j \in NonZeroItems : ~FracGreater(SimTo(j), SimTo(k))

\* C1: for every centroid map, a feature vector of all zeros is assigned to the
\* fallback cluster id, and no similarity is computed for it.
C1_ZeroVectorFallback ==
    (pc = "returned" /\ NormSq(FeatIn) = 0)
        => (Returned.best_cluster = FallbackCluster /\ Returned.sims = 0)

\* C1 witness: a text without any keyword was assigned against a map that has
\* centroids of non-zero norm and lacks the fallback id.
C1_Witness ==
    /\ pc = "returned"
    /\ description = Some("Fence")
    /\ NormSq(FeatIn) = 0
    /\ NonZeroItems # {}
    /\ \A k \in 1..Len(centroids) : centroids[k].cid # FallbackCluster

\* C2 as stated: for a non-zero vector the returned cluster has maximal cosine
\* similarity among the non-zero-norm centroids, and among tied maxima it is the
\* lowest cluster id, whatever the iteration order of the map.
C2_Original ==
    (pc = "returned" /\ NormSq(FeatIn) # 0)
        => \E k \in NonZeroItems :
              /\ centroids[k].cid = Returned.best_cluster
              /\ \A j \in NonZeroItems :
                    /\ ~FracGreater(SimTo(j), SimTo(k))
                    /\ centroids[j].cid < centroids[k].cid => FracGreater(SimTo(k), SimTo(j))

\* C2 amended: for a non-zero vector, when some centroid has a non-zero norm the
\* returned cluster has maximal cosine similarity among those centroids and is the
\* first of the tied maxima in the map's iteration order (hence the lowest id when
\* the map iterates in ascending id order); when none has, the fallback id is
\* returned.
C2_MaxSimFirstInOrder ==
    (pc = "returned" /\ NormSq(FeatIn) # 0)
        => IF NonZeroItems = {}
           THEN Returned.best_cluster = FallbackCluster
           ELSE \E k \in NonZeroItems :
                   /\ centroids[k].cid = Returned.best_cluster
                   /\ \A j \in NonZeroItems :
                         /\ ~FracGreater(SimTo(j), SimTo(k))
                         /\ j < k => FracGreater(SimTo(k), SimTo(j))

\* C2 witness: a non-zero vector met two tied maxima of which the first in
\* iteration order has the higher id, in a map that also holds a zero-norm centroid.
C2_Witness ==
    /\ pc = "returned"
    /\ NormSq(FeatIn) # 0
    /\ NonZeroItems # 1..Len(centroids)
    /\ \E k, j \in NonZeroItems :
          /\ IsMaximal(k) /\ IsMaximal(j)
          /\ k < j /\ centroids[j].cid < centroids[k].cid
          /\ centroids[k].centroid # centroids[j].centroid
          /\ centroids[k].cid = Returned.best_cluster

----------------------------------------------------------------------------
(* Claims about the rule cascades                                          *)

\* the rules of each cascade that match a text, by position in the cascade
TradeMatches(d) ==
    { i \in 1..Len(TRADE_RULES) : Search(TRADE_RULES[i].pattern, d[1]) }
ProjectMatches(d) ==
    { i \in 1..Len(PROJECT_PATTERNS) : Search(PROJECT_PATTERNS[i].pattern, lower(d[1])) }

\* the text matches a demolition rule of the cascade and a rule of another label
DemolitionAndOther(rules, matches) ==
    /\ \E i \in matches : rules[i].label = "demolition"
    /\ \E i \in matches : rules[i].label # "demolition"

TradeLabels == { TRADE_RULES[i].label : i \in 1..Len(TRADE_RULES) }

\* C4: a description that matches a demolition pattern and the pattern of any
\* other rule is classified as demolition, by the trade cascade and by the
\* project-type cascade.
C4_DemolitionFirst ==
    /\ (pc = "categorized" /\ description # None
        /\ DemolitionAndOther(TRADE_RULES, TradeMatches(description)))
           => result = Some("demolition")
    /\ (pc = "fast_categorized" /\ description # None
        /\ DemolitionAndOther(PROJECT_PATTERNS, ProjectMatches(description)))
           => result = Some("demolition")

\* C4 witness: a text that matches demolition and another rule in both cascades
\* was classified.
C4_Witness ==
    /\ pc = "categorized"
    /\ description # None
    /\ DemolitionAndOther(TRADE_RULES, TradeMatches(description))
    /\ DemolitionAndOther(PROJECT_PATTERNS, ProjectMatches(description))

\* the label of the first rule in list order that matches, "other" when none does
FirstInOrder(d) ==
    LET matches == TradeMatches(d)
    IN IF matches = {} THEN "other"
       ELSE TRADE_RULES[CHOOSE i \in matches : \A j \in matches : i <= j].label

\* C5 as stated: for every text, the empty string included, categorize returns
\* the label of the first matching rule, "other" when no rule matches, and never
\* a value outside the label set plus "other".
C5_Original ==
    (pc = "categorized" /\ description # None)
        => /\ result = Some(FirstInOrder(description))
           /\ result \in { Some(l) : l \in TradeLabels \cup {"other"} }

\* C5 amended: for every non-empty text categorize returns the label of the
\* first matching rule, "other" when no rule matches, never a value outside the
\* label set plus "other"; for the empty text it returns None.
C5_TotalOnNonEmpty ==
    (pc = "categorized" /\ description # None)
        => IF description = Some("")
           THEN result = None
           ELSE /\ result = Some(FirstInOrder(description))
                /\ result \in { Some(l) : l \in TradeLabels \cup {"other"} }

\* C5 witness: a non-empty text that no rule matches was classified "other".
C5_Witness ==
    /\ pc = "categorized"
    /\ description # None /\ description # Some("")
    /\ TradeMatches(description) = {}
    /\ result = Some("other")

----------------------------------------------------------------------------
(* Claims about the record normalizers                                     *)

\* a cleaner returned a table
CleanedOk == pc = "cleaned" /\ cleaned.raised = None
ByCleanPermitData == CleanedOk /\ cleaned.by = "clean_permit_data"
ByUnified == CleanedOk /\ cleaned.by = "UnifiedDataCleaner"

\* the position in the csv header of the column whose normalized name is name
\* (0 when there is none); the cleaners keep the positions of the columns
FieldAt(name) ==
    LET at == { j \in 1..Len(csv.columns) : NormalizedColumns[csv.columns[j]] = name }
    IN IF at = {} THEN 0 ELSE CHOOSE j \in at : TRUE

\* the cell text of the k-th csv row under that column, "" when there is none
RawField(k, name) == IF FieldAt(name) = 0 THEN "" ELSE csv.rows[k][FieldAt(name)]

CsvHasGeo == FieldAt("latitude") # 0 /\ FieldAt("longitude") # 0
CsvHasRequired == FieldAt("permit_num") # 0 /\ FieldAt("original_address_1") # 0

\* the k-th csv row has both coordinates, as numbers between the bounds
\* (in tenths), the bounds themselves included or not
RawBetween(k, latLo, latHi, lonLo, lonHi, inclusive) ==
    LET lat == RawField(k, "latitude")
        lon == RawField(k, "longitude")
    IN /\ lat \notin NA_VALUES /\ lon \notin NA_VALUES
       /\ IsFloatText(lat) /\ IsFloatText(lon)
       /\ IF inclusive
          THEN /\ latLo <= FloatOf(lat) /\ FloatOf(lat) <= latHi
               /\ lonLo <= FloatOf(lon) /\ FloatOf(lon) <= lonHi
          ELSE /\ latLo < FloatOf(lat) /\ FloatOf(lat) < latHi
               /\ lonLo < FloatOf(lon) /\ FloatOf(lon) < lonHi

\* -90 <= latitude <= 90 and -180 <= longitude <= 180
OnGlobe(k) == RawBetween(k, 0 - 900, 900, 0 - 1800, 1800, TRUE)
\* -90 < latitude < 90 and -180 < longitude < 180
InsideGlobe(k) == RawBetween(k, 0 - 900, 900, 0 - 1800, 1800, FALSE)
\* 30.0 <= latitude <= 30.6 and -98.0 <= longitude <= -97.5
InsideAustin(k) == RawBetween(k, 300, 306, 0 - 980, 0 - 975, TRUE)

CsvRowIds == 1..Len(csv.rows)

\* the csv rows the returned table holds, by its index labels (which
\* clean_permit_data keeps and UnifiedDataCleaner.clean renumbers)
KeptRows == { cleaned.df.index[i] + 1 : i \in 1..Len(cleaned.df.index) }

\* the returned table carries the three columns
CarriesGeoAndZip ==
    /\ HasColumn(cleaned.df, "zip_code")
    /\ HasColumn(cleaned.df, "latitude")
    /\ HasColumn(cleaned.df, "longitude")

\* the k-th csv row lacks the field (an empty or NA cell)
Lacks(k, name) == RawField(k, name) \in NA_VALUES

\* the coordinates of the i-th returned row, in tenths
OutLat(i) == Cell(cleaned.df, cleaned.df.rows[i], "latitude")
OutLon(i) == Cell(cleaned.df, cleaned.df.rows[i], "longitude")

\* a coordinate is present and between the bounds, in tenths
Within(value, lo, hi) == value # None /\ lo <= value[1] /\ value[1] <= hi

\* a DataFrame cell as an optional number of tenths
Number(cell) ==
    IF isna(cell) \/ cell[1] \notin {"int", "float"} THEN None ELSE Some(Tenths(cell))

\* the csv row the i-th row of the table UnifiedDataCleaner.clean returned
\* comes from
UnifiedSource(i) == SetToSeq({ k \in CsvRowIds : InsideAustin(k) })[i]

\* the csv carries every column the normalizers look for
CsvComplete == CsvHasGeo /\ CsvHasRequired

\* C6: every row that leaves clean_permit_data or UnifiedDataCleaner.clean, and
\* every tuple prepare_permit prepares, has a latitude and a longitude, both
\* non-null, with -90 <= latitude <= 90 and -180 <= longitude <= 180 (stated
\* for the csv files that carry every column).
C6_GeoInvariant ==
    CsvComplete =>
        /\ CleanedOk =>
              \A i \in 1..Len(cleaned.df.rows) :
                  /\ Within(Number(OutLat(i)), 0 - 900, 900)
                  /\ Within(Number(OutLon(i)), 0 - 1800, 1800)
        /\ pc = "prepared" =>
              \A i \in 1..Len(prepared) :
                  /\ Within(prepared[i].permit.latitude, 0 - 900, 900)
                  /\ Within(prepared[i].permit.longitude, 0 - 1800, 1800)

\* C7 as stated: a cleaning that returns retains every csv row whose latitude
\* and longitude are present with -90 <= latitude <= 90 and -180 <= longitude
\* <= 180, and when the csv has such rows the output is not empty and carries
\* zip_code, latitude and longitude.
C7_Original ==
    (CleanedOk /\ CsvHasGeo) =>
        LET onGlobe == { k \in CsvRowIds : OnGlobe(k) }
        IN /\ ByCleanPermitData => onGlobe \subseteq KeptRows
           /\ Len(cleaned.df.rows) >= Cardinality(onGlobe)
           /\ onGlobe # {} => (Len(cleaned.df.rows) > 0 /\ CarriesGeoAndZip)

\* C7 amended: the geographic filter of clean_permit_data retains exactly the
\* rows with -90 < latitude < 90 and -180 < longitude < 180 (the boundary values
\* excluded), that of UnifiedDataCleaner.clean exactly the rows with 30.0 <=
\* latitude <= 30.6 and -98.0 <= longitude <= -97.5, in their order; the output
\* carries zip_code, latitude and longitude, and is not empty when a row passes
\* the geographic filter and, in clean_permit_data, has both required fields.
C7_GeoFilterRetains ==
    (CleanedOk /\ CsvHasGeo) =>
        /\ CarriesGeoAndZip
        /\ ByCleanPermitData =>
              /\ \A k \in KeptRows : InsideGlobe(k)
              /\ \A k \in CsvRowIds :
                    (InsideGlobe(k) /\ k \notin KeptRows)
                        => (CsvHasRequired /\ (Lacks(k, "permit_num")
                                                  \/ Lacks(k, "original_address_1")))
        /\ ByUnified =>
              LET austin == SetToSeq({ k \in CsvRowIds : InsideAustin(k) })
              IN /\ Len(cleaned.df.rows) = Len(austin)
                 /\ \A i \in 1..Len(austin) :
                       /\ Number(OutLat(i)) = Some(FloatOf(RawField(austin[i], "latitude")))
                       /\ Number(OutLon(i)) = Some(FloatOf(RawField(austin[i], "longitude")))

\* C7 witness: clean_permit_data returned a table that holds a row strictly
\* inside the bounds and lacks a row that lies on them.
C7_Witness ==
    /\ ByCleanPermitData /\ CsvHasGeo
    /\ \E k \in KeptRows : InsideGlobe(k)
    /\ \E k \in CsvRowIds : OnGlobe(k) /\ ~InsideGlobe(k) /\ k \notin KeptRows

\* the k-th csv row passes the geographic filter of clean_permit_data, or the
\* filter is skipped
PassesGeo(k) == CsvHasGeo => InsideGlobe(k)

\* C8 as stated: the required-field filter of clean_permit_data removes exactly
\* the rows that lack both permit_num and original_address_1.
C8_Original ==
    (ByCleanPermitData /\ CsvHasRequired) =>
        \A k \in CsvRowIds :
            PassesGeo(k) =>
                (k \notin KeptRows
                    <=> (Lacks(k, "permit_num") /\ Lacks(k, "original_address_1")))

\* C8 amended: when the table has both columns the required-field filter of
\* clean_permit_data removes exactly the rows that lack permit_num or
\* original_address_1 (either one); when a column is absent it removes no row.
C8_RequiredFields ==
    ByCleanPermitData =>
        \A k \in CsvRowIds :
            PassesGeo(k) =>
                (k \notin KeptRows
                    <=> (CsvHasRequired /\ (Lacks(k, "permit_num")
                                               \/ Lacks(k, "original_address_1"))))

\* C8 witness: clean_permit_data removed a row that has a permit number but no
\* address and kept a row that has both.
C8_Witness ==
    /\ ByCleanPermitData /\ CsvHasRequired
    /\ \E k \in CsvRowIds :
          /\ PassesGeo(k) /\ k \notin KeptRows
          /\ ~Lacks(k, "permit_num") /\ Lacks(k, "original_address_1")
    /\ \E k \in KeptRows : ~Lacks(k, "permit_num") /\ ~Lacks(k, "original_address_1")

\* the first five-digit run of the sources of the k-th csv row, tried in the
\* order of ZIP_SOURCES; "UNKNOWN" when no source has one
FirstZipInOrder(k) ==
    LET found == { i \in 1..Len(ZIP_SOURCES) :
                     str_extract(RawField(k, ZIP_SOURCES[i])) # NaN }
    IN IF found = {} THEN "UNKNOWN"
       ELSE str_extract(RawField(k, ZIP_SOURCES[CHOOSE i \in found :
                                                  \A j \in found : i <= j]))[2]

\* C9: the zip_code of every row a cleaner returns and of every tuple
\* prepare_permit prepares is the first five-digit match of original_zip,
\* contractor_zip, applicant_zip in that order, and "UNKNOWN" when none matches
\* (stated for the csv files that carry every column).
C9_ZipPriority ==
    CsvComplete =>
        /\ ByCleanPermitData =>
              \A i \in 1..Len(cleaned.df.rows) :
                  Cell(cleaned.df, cleaned.df.rows[i], "zip_code")
                      = Str(FirstZipInOrder(cleaned.df.index[i] + 1))
        /\ ByUnified =>
              \A i \in 1..Len(cleaned.df.rows) :
                  Cell(cleaned.df, cleaned.df.rows[i], "zip_code")
                      = Str(FirstZipInOrder(UnifiedSource(i)))
        /\ pc = "prepared" =>
              \A i \in 1..Len(prepared) :
                  prepared[i].permit.zip_code = FirstZipInOrder(prepared[i].row)

\* the k-th csv row has the required fields the csv has a column for
HasRequired(k) ==
    CsvHasRequired => (~Lacks(k, "permit_num") /\ ~Lacks(k, "original_address_1"))

\* C10: a date that cannot be parsed is null in the row a cleaner returns and
\* in the tuple prepare_permit prepares, and no row is left out because of it
\* alone (stated for the csv files that carry every column).
C10_BadDateBecomesNull ==
    CsvComplete =>
        /\ ByCleanPermitData =>
              /\ \A i \in 1..Len(cleaned.df.rows) :
                    ~IsDateText(RawField(cleaned.df.index[i] + 1, "issued_date"))
                        => isna(cleaned.df.rows[i][FieldAt("issued_date")])
              /\ \A k \in CsvRowIds : (PassesGeo(k) /\ HasRequired(k)) => k \in KeptRows
        /\ ByUnified =>
              \A i \in 1..Len(cleaned.df.rows) :
                  ~IsDateText(RawField(UnifiedSource(i), "issued_date"))
                      => isna(cleaned.df.rows[i][FieldAt("issued_date")])
        /\ pc = "prepared" =>
              /\ \A i \in 1..Len(prepared) :
                    ~IsDateText(RawField(prepared[i].row, "issued_date"))
                        => prepared[i].permit.issue_date = None
              /\ \A k \in CsvRowIds :
                    RawField(k, "permit_num") # ""
                        => \E i \in 1..Len(prepared) : prepared[i].row = k

----------------------------------------------------------------------------
(* Claims about the keyword extractor                                      *)

\* the columns of the table whose name starts with "f_", in table order
FeatureColumnsOf(df) ==
    SelectSeq(df.columns, LAMBDA name : Len(name) >= 2 /\ SubSeq(name, 1, 2) = "f_")

\* the feature names of every (text column, keyword) pair, in that order
AllFeatureColumns ==
    [n \in 1..(Len(TEXT_COLUMNS) * Len(NLP_KEYWORDS)) |->
        FeatureColumn(TEXT_COLUMNS[((n - 1) \div Len(NLP_KEYWORDS)) + 1],
                      NLP_KEYWORDS[((n - 1) % Len(NLP_KEYWORDS)) + 1])]

\* C11: the table nlp_enrich returns has len(text_columns) * len(keywords)
\* feature columns, in (text column, keyword) order, every entry of every row
\* is 0 or 1, and the entries of a text column that is absent, null or empty
\* are all 0.
C11_FeatureShape ==
    (pc = "enriched" /\ Len(frame.rows) > 0) =>
        /\ FeatureColumnsOf(frame) = AllFeatureColumns
        /\ \A k \in 1..Len(frame.rows) :
              \A c \in 1..Len(TEXT_COLUMNS), i \in 1..Len(NLP_KEYWORDS) :
                  LET entry == Cell(frame, frame.rows[k],
                                    FeatureColumn(TEXT_COLUMNS[c], NLP_KEYWORDS[i]))
                  IN /\ entry \in { Int64(0), Int64(1) }
                     /\ (~HasColumn(frame, TEXT_COLUMNS[c])
                            \/ Cell(frame, frame.rows[k], TEXT_COLUMNS[c]) \in { NaN, Str("") })
                           => entry = Int64(0)

\* the same on the tables that carry every text column
C11_ShapeWhenAllPresent ==
    (\A c \in 1..Len(TEXT_COLUMNS) : HasColumn(frame, TEXT_COLUMNS[c])) => C11_FeatureShape

----------------------------------------------------------------------------
(* Claims about the clusterers                                             *)

NSamples == Len(frame.rows)

NFeatures == Len(feature_cols_unified(frame, "f_"))

\* every record of the table the run returned has f_cluster 0
AllClusterZero(run) ==
    /\ HasColumn(run.df, "f_cluster")
    /\ \A k \in 1..Len(run.df.rows) : Cell(run.df, run.df.rows[k], "f_cluster") = Int64(0)

\* C12: on a feature matrix with one sample (fewer than 2), either clusterer
\* skips k-means, assigns cluster 0 to every record and raises no exception.
C12_DegenerateInput ==
    \A r \in 1..Len(fits) :
        (NSamples = 1 /\ NFeatures > 0) =>
            /\ fits[r].raised = None
            /\ fits[r].n_clusters = None
            /\ AllClusterZero(fits[r])

\* the same for run_cuml_clustering alone, on one sample
C12_CumlOnOneSample ==
    \A r \in 1..Len(fits) :
        (clusterer.impl = "run_cuml_clustering" /\ NSamples = 1 /\ NFeatures > 0) =>
            /\ fits[r].raised = None
            /\ fits[r].n_clusters = None
            /\ AllClusterZero(fits[r])

\* C13: either clusterer builds PCA with min(pca_components, n_features,
\* n_samples) components and KMeans with min(k, n_samples) clusters, never
\* with more components or clusters than the table has samples.
C13_BoundedRequests ==
    \A r \in 1..Len(fits) :
        /\ fits[r].n_components # None =>
              /\ fits[r].n_components =
                     Some(Min3(clusterer.n_pca_components, NFeatures, NSamples))
              /\ fits[r].n_components[1] <= NSamples
        /\ fits[r].n_clusters # None =>
              /\ fits[r].n_clusters = Some(Min(clusterer.n_clusters, NSamples))
              /\ fits[r].n_clusters[1] <= NSamples

\* the same for run_cuml_clustering alone
C13_CumlBoundedRequests ==
    clusterer.impl = "run_cuml_clustering" => C13_BoundedRequests

\* C14: every run that builds KMeans passes it a random seed, and two runs of
\* a clusterer on the same feature matrix return the same label for every row.
C14_SeededAndRepeatable ==
    /\ \A r \in 1..Len(fits) :
          fits[r].n_clusters # None => fits[r].random_state # None
    /\ Len(fits) = 2 => fits[1].df = fits[2].df

\* the same for UnifiedClustering alone
C14_UnifiedRepeatable ==
    clusterer.impl = "UnifiedClustering" => C14_SeededAndRepeatable

\* two runs of run_cuml_clustering on the same matrix that differ in a label
C14_LabelsDiffer ==
    /\ Len(fits) = 2
    /\ fits[1].raised = None /\ fits[2].raised = None
    /\ fits[1].df # fits[2].df

----------------------------------------------------------------------------
(* Claims about the incremental update and the aggregates                  *)

\* update_aggregates or update_cluster_counts has completed and no run has
\* started since
Aggregated == pc \in { "done", "counted" }

\* the permits that currently have the cluster id
MembersOf(c) == { k \in 1..Len(permits) : permits[k].cluster_id = Some(c) }

Clustered == { k \in 1..Len(permits) : permits[k].cluster_id # None }

EnergyIn(z) ==
    { k \in 1..Len(permits) : permits[k].is_energy_permit /\ permits[k].zip_code = z }

IssuedIn(y) == { k \in 1..Len(permits) : Dated(permits[k]) /\ YearOf(permits[k]) = y }

\* the per-ZIP and the per-year rows are a recount of the permits table
ZipAndYearRecount ==
    /\ \A r \in energy_stats_by_zip :
          r.total_energy_permits = Cardinality(EnergyIn(r.zip_code))
    /\ \A k \in 1..Len(permits) :
          permits[k].is_energy_permit =>
              Cardinality({ r \in energy_stats_by_zip : r.zip_code = permits[k].zip_code }) = 1
    /\ \A t \in trends :
          t.period_type = "year" => t.total_permits = Cardinality(IssuedIn(t.period))
    /\ \A k \in 1..Len(permits) :
          Dated(permits[k]) =>
              Cardinality({ t \in trends : t.period_type = "year"
                                             /\ t.period = YearOf(permits[k]) }) = 1

\* C15: after update_aggregates or update_cluster_counts, whatever the tables
\* held before, every cluster row has the number and the share of the permits
\* that currently have its id (0 for a cluster without members), and the
\* per-ZIP and per-year rows are a recount of the permits table.
C15_AggregatesRecomputed ==
    Aggregated =>
        /\ \A c \in DOMAIN clusters :
              /\ clusters[c].count = Cardinality(MembersOf(c))
              /\ clusters[c].percentage =
                     IF MembersOf(c) = {} THEN 0
                     ELSE Percentage(Cardinality(MembersOf(c)), Cardinality(Clustered))
        /\ ZipAndYearRecount

\* the same without the cluster rows
C15_ZipAndYearRecomputed == Aggregated => ZipAndYearRecount

\* the same for the clusters that have members
C15_MemberClustersRecomputed ==
    Aggregated =>
        \A c \in DOMAIN clusters :
            MembersOf(c) # {} => clusters[c].count = Cardinality(MembersOf(c))

\* a run after a completed run is inserting, has inserted or has finished
AfterFirstRun ==
    \/ update_run.n >= 1 /\ pc \in { "insert", "aggregate" }
    \/ update_run.n >= 2

\* C16: whatever number of runs of incremental_update on the same csv, every
\* permit_number occurs at most once in the permits table, a run after a
\* completed run inserts no permit, and no run changes a field of a permit
\* that was in the table when the run began.
C16_IdempotentUpdate ==
    /\ \A i, j \in 1..Len(permits) :
          permits[i].permit_number = permits[j].permit_number => i = j
    /\ AfterFirstRun => update_run.inserted = 0
    /\ Len(permits) >= Len(update_run.before)
    /\ \A k \in 1..Len(update_run.before) : permits[k] = update_run.before[k]

\* a second run has finished on a store that holds a permit the first run
\* inserted and a permit that was clustered and labelled before
C16_Witness ==
    /\ update_run.n = 2 /\ pc = "done"
    /\ \E k \in 1..Len(permits) :
          permits[k].permit_number = "P2" /\ permits[k].cluster_id = None
    /\ \E k \in 1..Len(permits) :
          permits[k].permit_number = "P1" /\ permits[k].cluster_id # None
                                          /\ permits[k].trade # None

----------------------------------------------------------------------------
(* Claims about the batched store writers                                  *)

\* the rows written since the last conn.commit(): what a crash at this point
\* rolls back
Uncommitted == { p \in DOMAIN permits : permits[p] # committed[p] }

\* C17: the batched writers commit chunk by chunk of BATCH_SIZE rows, so that
\* a crash at any point of the run loses the writes of at most the one chunk
\* in progress.
C17_LossBoundedByChunk ==
    pc = "update" => Cardinality(Uncommitted) <= BatchSize

----------------------------------------------------------------------------
(* Claims about the checkpoint and the association of LLM results          *)

\* the last_id a start of the script would resume from
PersistedLastId == load_progress(progress_file).last_id

\* C18: whenever the script is (re)started, after an interruption at any
\* point, the persisted checkpoint is the last_id of the last batch whose
\* results were committed to the store.
C18_CheckpointIsLastCommitted ==
    pc = "load" =>
        /\ progress_file # Truncated
        /\ PersistedLastId = committed_upto

\* the checkpoint is never ahead of the commits: no record is skipped whose
\* batch was not committed
C18_CheckpointNotAhead ==
    progress_file # Truncated => PersistedLastId <= committed_upto

\* C20: whatever the reply of the model contains, the updates a reply causes
\* go to records of the batch that was sent in the request.
C20_NoCrossTalk ==
    request # <<>> =>
        request.written \subseteq { request.batch[k] : k \in 1..Len(request.batch) }

\* the same for llm_categorize_other alone
C20_OtherNoCrossTalk ==
    script = "llm_categorize_other" => C20_NoCrossTalk

----------------------------------------------------------------------------
(* Claims about the recovery of extract_vllm                               *)

\* the (file, row) places that hold the result for the permit
PlacesOf(p) ==
    { <<f, k>> \in (1..Len(batch_files)) \X (1..(NPermits + 1)) :
          k <= Len(batch_files[f]) /\ batch_files[f][k].sent_for = p }

Described == { p \in DOMAIN construction_permits : construction_permits[p] # None }

\* C19: when a run of extract_vllm has finished, whatever interruptions and
\* restarts came before, every permit with a non-null description has its
\* result in exactly one batch file.
C19_ExactlyOneBatchFile ==
    pc = "done" => \A p \in Described : Cardinality(PlacesOf(p)) = 1

\* every row of a batch file carries the number of the permit whose
\* description was sent
C20_ExtractOneKeepsId ==
    \A f \in 1..Len(batch_files) : \A k \in 1..Len(batch_files[f]) :
        batch_files[f][k].permit_number = batch_files[f][k].sent_for

----------------------------------------------------------------------------
(* Claims about the LLM requests of extract_batch                          *)

Failed == { i \in DOMAIN tasks : tasks[i].state = "returned"
                                   /\ tasks[i].response[1] \in TransientFailures }

\* C21: a request that failed transiently (timeout, malformed response, rate
\* limit) was retried: the task that returned after such a failure posted its
\* request more than once.
C21_TransientRetried ==
    \A i \in Failed : tasks[i].posts > 1

\* a failed request is posted exactly once and yields the all-null result for
\* its own record; the batch returns a result for every task all the same
C21_FailureYieldsNull ==
    /\ \A i \in Failed : tasks[i].posts = 1
    /\ \A k \in DOMAIN results :
           results[k].task \in Failed =>
               /\ results[k].features = None
               /\ results[k].row.permit_number = tasks[results[k].task].permit_num
    /\ pc = "returned" => Len(results) = Len(tasks)

C21_FailureReturned ==
    pc = "returned" /\ Failed # {} /\ Failed # DOMAIN tasks

ResultsOf(i) == { k \in DOMAIN results : results[k].task = i }

----------------------------------------------------------------------------
(* Claims about the entry points                                           *)

\* the entry point requires an input file and none of its paths exists
InputMissing ==
    /\ InputPaths(entry_point) # <<>>
    /\ \A k \in DOMAIN InputPaths(entry_point) : InputPaths(entry_point)[k] \notin DOMAIN input_files

\* C23: when the required input file does not exist the entry point reads no
\* record of the store or of a file and writes nothing to the store or to an
\* output file, and it stops at its test of the path.
C23_FailFast ==
    InputMissing =>
        /\ records_processed = 0
        /\ effects \subseteq {"connect"}
        /\ pc \in {"running", "failed"}
        /\ pc = "running" => Steps(entry_point)[step] \in {"connect", "exists"}

\* the test of the path has stopped an entry point that had connected
C23_Witness ==
    /\ InputMissing
    /\ pc = "failed"
    /\ Steps(entry_point)[step] = "exists"
    /\ "connect" \in effects

----------------------------------------------------------------------------
(* Claims about the cluster namer                                          *)

\* the rules of the cascade in their order: keyword, threshold, and the
\* names the rule gives
NamerRules ==
    << [kw |-> "demolition", over |-> 35, names |-> {"Demolition Projects"}],
       [kw |-> "foundation", over |-> 80, names |-> {"Foundation Repairs", "Foundation Work"}],
       [kw |-> "window", over |-> 50,
        names |-> {"Window Installations & Multi-Trade Remodels"}],
       [kw |-> "remodel", over |-> 40,
        names |-> {"Commercial Renovations", "Major Residential Remodels"}],
       [kw |-> "new", over |-> 80,
        names |-> {"New Residential Construction", "New Construction"}],
       [kw |-> "hvac", over |-> 5, names |-> {"HVAC Installations"}],
       [kw |-> "electrical", over |-> 7,
        names |-> {"Electrical & Roofing Work", "Electrical Installations"}],
       [kw |-> "new", over |-> 20,
        names |-> {"General Construction & Plumbing", "General Construction & Repairs",
                   "General New Construction"}] >>

\* keyword i comes before keyword j by prevalence (columns in order on a tie)
Before(i, j) ==
    \/ cluster.sums[i] > cluster.sums[j]
    \/ cluster.sums[i] = cluster.sums[j] /\ i < j

Positive == { i \in DOMAIN NLP_KEYWORDS : cluster.sums[i] > 0 }

\* the top-3 keywords by prevalence among the positive ones
Top3Of(positive) ==
    { i \in positive : Cardinality({ j \in positive : Before(j, i) }) < 3 }

Top3 == Top3Of(Positive)

TopKeywordOf(positive) == CHOOSE i \in positive : \A j \in positive \ {i} : Before(i, j)

\* the rules whose keyword is in the top 3 with a prevalence over the
\* threshold
MatchingOf(top3) ==
    { r \in DOMAIN NamerRules :
        \E i \in top3 : /\ NLP_KEYWORDS[i] = NamerRules[r].kw
                        /\ cluster.sums[i] * 100 > NamerRules[r].over * cluster.size }

Matching == MatchingOf(Top3)

FirstOf(matching) == CHOOSE r \in matching : \A q \in matching : r <= q

FirstMatching == FirstOf(Matching)

\* the name is that of the first matching rule, Fallback(top keyword) when
\* no rule matches, "Miscellaneous" when no keyword has positive prevalence
CascadeWith(Fallback(_)) ==
    pc = "named" =>
        LET positive == Positive
            matching == MatchingOf(Top3Of(positive))
        IN  IF matching # {} THEN cluster_name[1] \in NamerRules[FirstOf(matching)].names
            ELSE IF positive # {}
            THEN cluster_name[1] = Fallback(TopKeywordOf(positive)) \o " Work"
            ELSE cluster_name[1] = "Miscellaneous"

KeywordItself(i) == NLP_KEYWORDS[i]

\* the keywords as str.title() writes them
TitleCased ==
    << "Residential", "Commercial", "Remodel", "Repair", "New", "Demolition",
       "Foundation", "Roof", "Window", "Permit", "Hvac", "Electrical",
       "Plumbing", "Mechanical", "Multi-Family", "Single-Family" >>

KeywordInTitleCase(i) == TitleCased[i]

\* C24: generate_cluster_name returns the name of the first rule, in the
\* order demolition(>35), foundation(>80), window(>50), remodel(>40),
\* new(>80), hvac(>5), electrical(>7), new(>20), whose keyword is among the
\* top-3 keywords by prevalence and whose prevalence exceeds its threshold;
\* when no rule matches it returns the top keyword followed by " Work", and
\* "Miscellaneous" when no keyword has positive prevalence.
C24_Original ==
    CascadeWith(KeywordItself)

\* C24 (amended): the same cascade, with the fallback name built from the
\* top keyword in title case ("Multi-Family Work", "Hvac Work").
C24_Cascade ==
    CascadeWith(KeywordInTitleCase)

\* a later rule named the cluster although the keyword of an earlier rule is
\* positive but outside the top 3 or under its threshold
C24_Witness ==
    /\ pc = "named"
    /\ Cardinality(Positive) > 3
    /\ Matching # {} /\ FirstMatching > 5
    /\ \E i \in Positive \ Top3 : NLP_KEYWORDS[i] = "demolition"

\* the fallback named the cluster after a keyword with a hyphen
C24_FallbackWitness ==
    /\ pc = "named"
    /\ Matching = {} /\ Positive # {}
    /\ cluster_name[1] = "Multi-Family Work"

----------------------------------------------------------------------------
(* Claims about a repeated run of the normalizers                          *)

\* C25: a second run of the normalizer on the table object the first run
\* received returns what the first run returned: the same exception or the
\* same rows, column names and field values.
C25_Idempotent ==
    (pc = "cleaned_again" /\ Len(csv.rows) > 0) =>
        /\ cleaned_again.raised = cleaned.raised
        /\ cleaned_again.df = cleaned.df

\* the same for the csv files whose column names hold no run of three
\* spaces
C25_IdempotentOnPlainHeaders ==
    csv.columns # SpacedHeader => C25_Idempotent

\* the same for UnifiedDataCleaner.clean on every csv file
C25_UnifiedIdempotent ==
    (pc = "cleaned_again" /\ cleaned.by = "UnifiedDataCleaner") => C25_Idempotent

\* a second run that returned a table with rows
C25_Reached ==
    /\ pc = "cleaned_again"
    /\ cleaned.raised = None
    /\ Len(cleaned.df.rows) > 0
    /\ cleaned_again.df = cleaned.df

----------------------------------------------------------------------------
(* Claims about the saves of llm_categorize_all                            *)

\* the permits the run has processed and no saved progress file lists
Unsaved ==
    Len(prog.processed_ids) - Len(load_progress_all(progress_file).processed_ids)

\* C26: in any run of llm_categorize_all, the results and the progress are
\* saved after every batch of permits processed, whether the queries for them
\* succeeded or failed, so that an abrupt stop loses the work of at most one
\* batch of permits: at every row of the loop, at most one batch of permits
\* is processed and in no saved progress file
C26_SavedEveryBatch ==
    pc = "all_loop" => Unsaved <= AllBatchSize

\* the save the code does make: the successful results held in memory are
\* always fewer than one batch
C26_SuccessesSavedEveryBatch ==
    pc = "all_loop" => Len(batch_categories) < AllBatchSize

\* a run where a whole batch of permits was processed
C26_BatchProcessed ==
    pc = "all_loop" /\ Len(prog.processed_ids) >= AllBatchSize

----------------------------------------------------------------------------
(* Claims about find_best_cluster of the compute backends                  *)

\* a call of find_best_cluster has returned for a row of zeros and a dict
\* that holds a centroid
ZeroRowReturned ==
    /\ pc = "backend_returned"
    /\ NormSq(Features(description)) = 0
    /\ centroids # <<>>

\* C27: in every compute backend, find_best_cluster assigns a feature row of
\* zeros to the fallback cluster id, for every centroid map, and so returns
\* the cluster assign_nearest_cluster returns for that row
C27_ZeroRowFallback ==
    ZeroRowReturned =>
        /\ result[1].best = << "cluster", FallbackCluster >>
        /\ result[1].best = << "cluster", result[1].assigned >>

\* what every backend does return for a row of zeros: every similarity is 0,
\* so the first key of the dict
C27_ZeroRowFirstKey ==
    ZeroRowReturned => result[1].best = << "cluster", centroids[1].cid >>

\* a call with a row of zeros whose result differs from the fallback
C27_ZeroRowElsewhere ==
    ZeroRowReturned /\ result[1].best # << "cluster", FallbackCluster >>

----------------------------------------------------------------------------
(* Claims about the cluster ids assign_nearest_cluster returns             *)

\* the keys of the centroid map passed in
KeysOfCentroids == { centroids[k].cid : k \in 1..Len(centroids) }

\* C28: assign_nearest_cluster only returns the id of an existing cluster: for
\* every feature vector and every centroid map that holds a centroid, the
\* returned cluster id is a key of the map
C28_ReturnsKey ==
    (pc = "returned" /\ centroids # <<>>) => Returned.best_cluster \in KeysOfCentroids

\* where the returned id is a key: whenever a similarity was computed and
\* kept, i.e. the vector is not zero and some centroid of the map is not zero
C28_ReturnsKeyAfterMatch ==
    (pc = "returned" /\ NormSq(FeatIn) # 0 /\ NonZeroItems # {})
        => Returned.best_cluster \in KeysOfCentroids

\* a call that returned an id no centroid of a non-empty map has
C28_ReturnedMissingKey ==
    /\ pc = "returned"
    /\ centroids # <<>>
    /\ Returned.best_cluster \notin KeysOfCentroids

----------------------------------------------------------------------------
(* Claims about the permit number inside incremental_update                *)

\* the csv rows find_new_permits selected, in a run that is about to insert
NewRows == { csv.rows[rows[k]] : k \in 1..Len(rows) }

\* the row is prepared under the non-empty number it was selected by
SameNumber(row) ==
    /\ scanned_permit_num(csv, row) # ""
    /\ prepare_permit(csv, row).permit_number = scanned_permit_num(csv, row)

\* C29: for every csv header variant, every row find_new_permits selects as
\* new is prepared by prepare_permit, and so inserted, under the same non-empty
\* permit number that was used for the membership test against the store
C29_SameNumber ==
    pc = "insert" => \A row \in NewRows : SameNumber(row)

\* the same for the headers whose permit number column is not named
\* permit_number
C29_SameNumberOtherHeaders ==
    (pc = "insert" /\ csv.columns # NumberHeader) => \A row \in NewRows : SameNumber(row)

\* a run selected a new row of a csv whose column is named permit_number
C29_NumberHeaderSelected ==
    pc = "insert" /\ csv.columns = NumberHeader /\ NewRows # {}

----------------------------------------------------------------------------
(* Claims about the feature columns of a second clustering                 *)

\* C30: the clustering input never contains the clustering output: in every
\* clusterer the feature columns selected by prefix exclude the label column
\* f_cluster, so clustering a table that carries f_cluster from an earlier run
\* uses exactly the feature columns of the first run
C30_SameFeatureColumns ==
    pc = "reclustered" =>
        LET first == SelectedFeatureCols(clusterer.impl, frame)
            second == SelectedFeatureCols(clusterer.impl, fits[1].df)
        IN /\ \A j \in 1..Len(second) : second[j] # "f_cluster"
           /\ second = first

\* the same for UnifiedClustering.add_clusters_to_df alone, with the runs it
\* makes: the second run returns what the first returned
C30_UnifiedSameFeatureColumns ==
    (pc = "reclustered" /\ clusterer.impl = "UnifiedClustering") =>
        /\ SelectedFeatureCols(clusterer.impl, fits[1].df)
               = SelectedFeatureCols(clusterer.impl, frame)
        /\ fits[2] = fits[1]

\* run_cuml_clustering was run on a table that carried f_cluster
C30_CumlReclustered ==
    pc = "reclustered" /\ clusterer.impl = "run_cuml_clustering"

====
